---- MODULE Spec2Model ----
(***************************************************************************)
(* HeadCountGuard: the line-crossing counting engine (src/src/counter.py). *)
(*                                                                         *)
(* Numbers.  The code computes with Python floats; the model computes the  *)
(* same expressions exactly, over rationals <<n, d>> (d > 0).  Pixel       *)
(* coordinates, frame sizes and mask cells are integers.                   *)
(*                                                                         *)
(* Exceptions.  An operator that models code which can raise returns a     *)
(* record whose field "raised" names the exception ("none" when the code   *)
(* returned, the result then being in "value").                            *)
(***************************************************************************)
EXTENDS Integers, Sequences, FiniteSets, TLC

VARIABLES
    counters,   \* name -> LineCrossingCounter instance; empty when none exists
    error,      \* the exception the constructor call raised ("none" if it returned)
    ret,        \* name -> what the last update call returned or raised
    observed,   \* TRUE once the update call under observation has been made
    last_objs,  \* the tracked_objects list of the observed call
    prev,       \* the counters as they were when the observed call began
    failed,     \* the exception of the last constructor call that raised
    appeared,   \* the track ids given to some update call so far
    absent,     \* track id -> the update calls since the id was last given, and its point then
    scenario,   \* the test scenario that is running, and the counts it collected
    first_seen, \* track id -> the first reference point stored for it
    reversal,   \* two counters whose line points are given in opposite orders
    descent,    \* a box moving down across a horizontal line, under two criteria
    transformer, \* the CoordinateTransformer and what its last call returned
    roi_manager, \* the ROIManager
    tracker,    \* the PersonTracker, its ByteTrack and the tracker underneath
    app,        \* the PeopleCounterApp window and its VideoProcessor
    roi_call,   \* the last call of a method of the ROIManager and what it returned
    line_manager, \* a LineManager with a line, and the last side mask it made
    video_processor \* a VideoProcessor driven directly, and the callbacks it made

\* the variables of the counters under test
counter_vars == <<counters, error, ret, observed, last_objs, prev, failed, appeared, absent>>

\* the variables of the other components
other_vars ==
    <<first_seen, reversal, descent, transformer, roi_manager, tracker, app,
      roi_call, line_manager, video_processor>>

\* the variables of the components driven on their own
later_vars == <<roi_call, line_manager, video_processor>>

vars == <<counter_vars, scenario, other_vars>>

----------------------------------------------------------------------------
(* Bounds of the model *)

MaxCount == 2       \* update calls are explored while |count| <= MaxCount
MaxGap == 2         \* the calls a track has been absent from are counted up to MaxGap
MaxFrames == 3      \* frames are passed to the tracker underneath while it has received fewer
MaxRoiPoints == 4   \* points are added to an ROI polygon while it has fewer than MaxRoiPoints

----------------------------------------------------------------------------
(* Exact arithmetic *)

Abs(n) == IF n < 0 THEN -n ELSE n

RECURSIVE GCD(_, _)
GCD(a, b) == IF b = 0 THEN a ELSE GCD(b, a % b)

\* the rational n/d (d # 0) in lowest terms, with a positive denominator
Rat(n, d) ==
    LET s == IF d < 0 THEN -1 ELSE 1
        g == GCD(Abs(n), Abs(d))
    IN  <<(s * n) \div g, (s * d) \div g>>

RInt(k) == <<k, 1>>
RDivInt(a, k) == Rat(a[1], a[2] * k)
\* differences and products are used for their sign only and are not reduced
RSub(a, b) == <<a[1] * b[2] - b[1] * a[2], a[2] * b[2]>>
RMul(a, b) == <<a[1] * b[1], a[2] * b[2]>>
RLe(a, b) == a[1] * b[2] <= b[1] * a[2]
RPositive(a) == a[1] > 0
RNegative(a) == a[1] < 0
RZero(a) == a[1] = 0

\* Python's int(): truncation toward zero
PyInt(a) == IF a[1] >= 0 THEN a[1] \div a[2] ELSE -((-a[1]) \div a[2])

Min(a, b) == IF a <= b THEN a ELSE b
Max(a, b) == IF a >= b THEN a ELSE b

----------------------------------------------------------------------------
(* Values *)

Returned(v) == [raised |-> "none", msg |-> <<>>, value |-> v]
Raised(e, msg) == [raised |-> e, msg |-> msg, value |-> 0]

\* roi_mask=None
NoMask == [is_none |-> TRUE, shape |-> <<0, 0>>, cells |-> <<>>]

\* a numpy array of shape (h, w) holding v in the cells of nz and 0 elsewhere
MaskOf(h, w, nz, v) ==
    [is_none |-> FALSE, shape |-> <<h, w>>,
     cells |-> [rc \in (0 .. h - 1) \X (0 .. w - 1) |-> IF rc \in nz THEN v ELSE 0]]

FullMask(h, w, v) == MaskOf(h, w, (0 .. h - 1) \X (0 .. w - 1), v)

CrossingCriteria == {"center", "top", "bottom", "left", "right"}

----------------------------------------------------------------------------
(* LineCrossingCounter *)

\* __init__ without the check of the mask's shape
LineCrossingCounter_unchecked(line_points, in_side, frame_width, frame_height, crossing_criteria, roi_mask) ==
    LET p1 == line_points[1]
        p2 == line_points[2]
    IN  IF in_side \notin {"left", "right"}
        THEN Raised("ValueError", <<"in_side must be either 'left' or 'right'">>)
        ELSE IF crossing_criteria \notin CrossingCriteria
        THEN Raised("ValueError", <<"is not a valid CrossingCriteria", crossing_criteria>>)
        ELSE Returned(
            [line_points |-> IF RLe(p1[2], p2[2]) THEN <<p1, p2>> ELSE <<p2, p1>>,
             in_side |-> in_side,
             crossing_criteria |-> crossing_criteria,
             count |-> 0,
             tracked_positions |-> <<>>,
             frame_width |-> frame_width,
             frame_height |-> frame_height,
             roi_mask |-> roi_mask])

\* __init__ storing line_points as given
LineCrossingCounter_unsorted(line_points, in_side, frame_width, frame_height, crossing_criteria, roi_mask) ==
    IF in_side \notin {"left", "right"}
    THEN Raised("ValueError", <<"in_side must be either 'left' or 'right'">>)
    ELSE IF crossing_criteria \notin CrossingCriteria
    THEN Raised("ValueError", <<"is not a valid CrossingCriteria", crossing_criteria>>)
    ELSE IF ~roi_mask.is_none /\ roi_mask.shape # <<frame_height, frame_width>>
    THEN Raised("ValueError", <<"ROI mask shape must match frame dimensions",
                               roi_mask.shape, <<frame_height, frame_width>> >>)
    ELSE Returned(
        [line_points |-> line_points,
         in_side |-> in_side,
         crossing_criteria |-> crossing_criteria,
         count |-> 0,
         tracked_positions |-> <<>>,
         frame_width |-> frame_width,
         frame_height |-> frame_height,
         roi_mask |-> roi_mask])

\* __init__ taking any in_side
LineCrossingCounter_any_side(line_points, in_side, frame_width, frame_height, crossing_criteria, roi_mask) ==
    LET p1 == line_points[1]
        p2 == line_points[2]
    IN  IF crossing_criteria \notin CrossingCriteria
        THEN Raised("ValueError", <<"is not a valid CrossingCriteria", crossing_criteria>>)
        ELSE IF ~roi_mask.is_none /\ roi_mask.shape # <<frame_height, frame_width>>
        THEN Raised("ValueError", <<"ROI mask shape must match frame dimensions",
                                   roi_mask.shape, <<frame_height, frame_width>> >>)
        ELSE Returned(
            [line_points |-> IF RLe(p1[2], p2[2]) THEN <<p1, p2>> ELSE <<p2, p1>>,
             in_side |-> in_side,
             crossing_criteria |-> crossing_criteria,
             count |-> 0,
             tracked_positions |-> <<>>,
             frame_width |-> frame_width,
             frame_height |-> frame_height,
             roi_mask |-> roi_mask])

\* __init__: the counter it constructs, or the exception it raises
LineCrossingCounter(line_points, in_side, frame_width, frame_height, crossing_criteria, roi_mask) ==
    LET p1 == line_points[1]
        p2 == line_points[2]
    IN  IF in_side \notin {"left", "right"}
        THEN Raised("ValueError", <<"in_side must be either 'left' or 'right'">>)
        ELSE IF crossing_criteria \notin CrossingCriteria
        THEN Raised("ValueError", <<"is not a valid CrossingCriteria", crossing_criteria>>)
        ELSE IF ~roi_mask.is_none /\ roi_mask.shape # <<frame_height, frame_width>>
        THEN Raised("ValueError", <<"ROI mask shape must match frame dimensions",
                                   roi_mask.shape, <<frame_height, frame_width>> >>)
        ELSE Returned(
            [line_points |-> IF RLe(p1[2], p2[2]) THEN <<p1, p2>> ELSE <<p2, p1>>,
             in_side |-> in_side,
             crossing_criteria |-> crossing_criteria,
             count |-> 0,
             tracked_positions |-> <<>>,
             frame_width |-> frame_width,
             frame_height |-> frame_height,
             roi_mask |-> roi_mask])

\* a / k as Python divides: ZeroDivisionError when k = 0
PyDiv(a, k) ==
    IF k = 0 THEN Raised("ZeroDivisionError", <<"division by zero">>)
    ELSE Returned(RDivInt(a, k))

\* the tuple (x, y) of two divisions, or the first exception
PyPoint(x, y) ==
    IF x.raised # "none" THEN x
    ELSE IF y.raised # "none" THEN y
    ELSE Returned(<<x.value, y.value>>)

\* _get_center dividing x by frame_height and y by frame_width
_get_center_transposed(self, bbox) ==
    LET center_x == RDivInt(RInt(bbox[1] + bbox[3]), 2)
        center_y == RDivInt(RInt(bbox[2] + bbox[4]), 2)
    IN  PyPoint(PyDiv(center_x, self.frame_height), PyDiv(center_y, self.frame_width))

_get_center(self, bbox) ==
    LET center_x == RDivInt(RInt(bbox[1] + bbox[3]), 2)
        center_y == RDivInt(RInt(bbox[2] + bbox[4]), 2)
    IN  PyPoint(PyDiv(center_x, self.frame_width), PyDiv(center_y, self.frame_height))

\* _get_edge_point taking y2 for "top" and y1 for "bottom"
_get_edge_point_flipped(self, bbox, edge) ==
    IF edge = "top" THEN
        PyPoint(PyDiv(RDivInt(RInt(bbox[1] + bbox[3]), 2), self.frame_width),
                PyDiv(RInt(bbox[4]), self.frame_height))
    ELSE IF edge = "bottom" THEN
        PyPoint(PyDiv(RDivInt(RInt(bbox[1] + bbox[3]), 2), self.frame_width),
                PyDiv(RInt(bbox[2]), self.frame_height))
    ELSE IF edge = "left" THEN
        PyPoint(PyDiv(RInt(bbox[1]), self.frame_width),
                PyDiv(RDivInt(RInt(bbox[2] + bbox[4]), 2), self.frame_height))
    ELSE
        PyPoint(PyDiv(RInt(bbox[3]), self.frame_width),
                PyDiv(RDivInt(RInt(bbox[2] + bbox[4]), 2), self.frame_height))

_get_edge_point(self, bbox, edge) ==
    IF edge = "top" THEN
        PyPoint(PyDiv(RDivInt(RInt(bbox[1] + bbox[3]), 2), self.frame_width),
                PyDiv(RInt(bbox[2]), self.frame_height))
    ELSE IF edge = "bottom" THEN
        PyPoint(PyDiv(RDivInt(RInt(bbox[1] + bbox[3]), 2), self.frame_width),
                PyDiv(RInt(bbox[4]), self.frame_height))
    ELSE IF edge = "left" THEN
        PyPoint(PyDiv(RInt(bbox[1]), self.frame_width),
                PyDiv(RDivInt(RInt(bbox[2] + bbox[4]), 2), self.frame_height))
    ELSE
        PyPoint(PyDiv(RInt(bbox[3]), self.frame_width),
                PyDiv(RDivInt(RInt(bbox[2] + bbox[4]), 2), self.frame_height))

_get_reference_point(self, bbox) ==
    IF self.crossing_criteria = "center" THEN _get_center(self, bbox)
    ELSE _get_edge_point(self, bbox, self.crossing_criteria)

\* cross_product taking the second point of the line itself, not its
\* difference from the first, as the direction of the line
cross_product_from_origin(self, point) ==
    LET x1 == self.line_points[1][1]
        y1 == self.line_points[1][2]
        x2 == self.line_points[2][1]
        y2 == self.line_points[2][2]
    IN  RSub(RMul(x2, RSub(point[2], y1)), RMul(y2, RSub(point[1], x1)))

\* the cross product dx * (y - y1) - dy * (x - x1) of _is_point_on_in_side
cross_product(self, point) ==
    LET x == point[1]
        y == point[2]
        x1 == self.line_points[1][1]
        y1 == self.line_points[1][2]
        x2 == self.line_points[2][1]
        y2 == self.line_points[2][2]
        dx == RSub(x2, x1)
        dy == RSub(y2, y1)
    IN  RSub(RMul(dx, RSub(y, y1)), RMul(dy, RSub(x, x1)))

\* _is_point_on_in_side with each side strictly its own: cross_product > 0 for
\* "left", cross_product < 0 for "right"
_is_point_on_in_side_strict(self, point) ==
    IF self.in_side = "left" THEN RPositive(cross_product(self, point))
    ELSE RNegative(cross_product(self, point))

\* _is_point_on_in_side comparing cross_product >= 0
_is_point_on_in_side_ge(self, point) ==
    (~RNegative(cross_product(self, point))) = (self.in_side = "left")

_is_point_on_in_side(self, point) ==
    RPositive(cross_product(self, point)) = (self.in_side = "left")

\* roi_mask[x_pixel, y_pixel]: the indices the wrong way round
MaskCell_transposed(roi_mask, y_pixel, x_pixel) ==
    IF x_pixel >= roi_mask.shape[1] \/ y_pixel >= roi_mask.shape[2]
    THEN Raised("IndexError", <<"index out of bounds">>)
    ELSE Returned(roi_mask.cells[<<x_pixel, y_pixel>>])

\* roi_mask[y_pixel, x_pixel], both indices >= 0: IndexError outside the array
MaskCell(roi_mask, y_pixel, x_pixel) ==
    IF y_pixel >= roi_mask.shape[1] \/ x_pixel >= roi_mask.shape[2]
    THEN Raised("IndexError", <<"index out of bounds">>)
    ELSE Returned(roi_mask.cells[<<y_pixel, x_pixel>>])

\* _is_point_in_roi clamping the pixel from below only
_is_point_in_roi_unclamped(self, point) ==
    IF self.roi_mask.is_none THEN Returned(TRUE)
    ELSE LET x_pixel == Max(0, PyInt(RMul(point[1], RInt(self.frame_width))))
             y_pixel == Max(0, PyInt(RMul(point[2], RInt(self.frame_height))))
             cell == MaskCell(self.roi_mask, y_pixel, x_pixel)
         IN  IF cell.raised # "none" THEN cell ELSE Returned(cell.value # 0)

\* _is_point_in_roi never looking at the mask
_is_point_in_roi_ignored(self, point) == Returned(TRUE)

\* _is_point_in_roi scaling x by frame_height and y by frame_width
_is_point_in_roi_misscaled(self, point) ==
    IF self.roi_mask.is_none THEN Returned(TRUE)
    ELSE LET x_pixel == Max(0, Min(PyInt(RMul(point[1], RInt(self.frame_height))),
                                   self.frame_width - 1))
             y_pixel == Max(0, Min(PyInt(RMul(point[2], RInt(self.frame_width))),
                                   self.frame_height - 1))
             cell == MaskCell(self.roi_mask, y_pixel, x_pixel)
         IN  IF cell.raised # "none" THEN cell ELSE Returned(cell.value # 0)

_is_point_in_roi(self, point) ==
    IF self.roi_mask.is_none THEN Returned(TRUE)
    ELSE LET x_pixel == Max(0, Min(PyInt(RMul(point[1], RInt(self.frame_width))),
                                   self.frame_width - 1))
             y_pixel == Max(0, Min(PyInt(RMul(point[2], RInt(self.frame_height))),
                                   self.frame_height - 1))
             cell == MaskCell(self.roi_mask, y_pixel, x_pixel)
         IN  IF cell.raised # "none" THEN cell ELSE Returned(cell.value # 0)

\* tracked_positions[track_id] = point
SetItem(d, k, v) == [x \in (DOMAIN d) \cup {k} |-> IF x = k THEN v ELSE d[x]]

\* crossing_change with the two directions exchanged
crossing_change_reversed(self, track_id, current_reference) ==
    IF track_id \notin DOMAIN self.tracked_positions THEN Returned(0)
    ELSE LET prev_reference == self.tracked_positions[track_id]
             prev_in_roi == _is_point_in_roi(self, prev_reference)
             cur_in_roi == _is_point_in_roi(self, current_reference)
             prev_on_in_side == _is_point_on_in_side(self, prev_reference)
             current_on_in_side == _is_point_on_in_side(self, current_reference)
         IN  IF prev_in_roi.raised # "none" THEN prev_in_roi
             ELSE IF ~prev_in_roi.value THEN Returned(0)
             ELSE IF cur_in_roi.raised # "none" THEN cur_in_roi
             ELSE IF ~cur_in_roi.value THEN Returned(0)
             ELSE IF prev_on_in_side # current_on_in_side
                  THEN Returned(IF prev_on_in_side THEN 1 ELSE -1)
             ELSE Returned(0)

\* crossing_change counting a track's first point on the IN side as an entry
crossing_change_first_counts(self, track_id, current_reference) ==
    IF track_id \notin DOMAIN self.tracked_positions
    THEN Returned(IF _is_point_on_in_side(self, current_reference) THEN 1 ELSE 0)
    ELSE LET prev_reference == self.tracked_positions[track_id]
             prev_in_roi == _is_point_in_roi(self, prev_reference)
             cur_in_roi == _is_point_in_roi(self, current_reference)
             prev_on_in_side == _is_point_on_in_side(self, prev_reference)
             current_on_in_side == _is_point_on_in_side(self, current_reference)
         IN  IF prev_in_roi.raised # "none" THEN prev_in_roi
             ELSE IF ~prev_in_roi.value THEN Returned(0)
             ELSE IF cur_in_roi.raised # "none" THEN cur_in_roi
             ELSE IF ~cur_in_roi.value THEN Returned(0)
             ELSE IF prev_on_in_side # current_on_in_side
                  THEN Returned(IF current_on_in_side THEN 1 ELSE -1)
             ELSE Returned(0)

\* crossing_change with "or" for "and" in the ROI test
crossing_change_either_in_roi(self, track_id, current_reference) ==
    IF track_id \notin DOMAIN self.tracked_positions THEN Returned(0)
    ELSE LET prev_reference == self.tracked_positions[track_id]
             prev_in_roi == _is_point_in_roi(self, prev_reference)
             cur_in_roi == _is_point_in_roi(self, current_reference)
             prev_on_in_side == _is_point_on_in_side(self, prev_reference)
             current_on_in_side == _is_point_on_in_side(self, current_reference)
         IN  IF prev_in_roi.raised # "none" THEN prev_in_roi
             ELSE IF ~prev_in_roi.value /\ cur_in_roi.raised # "none" THEN cur_in_roi
             ELSE IF ~prev_in_roi.value /\ ~cur_in_roi.value THEN Returned(0)
             ELSE IF prev_on_in_side # current_on_in_side
                  THEN Returned(IF current_on_in_side THEN 1 ELSE -1)
             ELSE Returned(0)

\* the change of count one object of an update call makes (lines 169-184), or
\* the exception its ROI lookups raise
crossing_change(self, track_id, current_reference) ==
    IF track_id \notin DOMAIN self.tracked_positions THEN Returned(0)
    ELSE LET prev_reference == self.tracked_positions[track_id]
             prev_in_roi == _is_point_in_roi(self, prev_reference)
             cur_in_roi == _is_point_in_roi(self, current_reference)
             prev_on_in_side == _is_point_on_in_side(self, prev_reference)
             current_on_in_side == _is_point_on_in_side(self, current_reference)
         IN  IF prev_in_roi.raised # "none" THEN prev_in_roi
             ELSE IF ~prev_in_roi.value THEN Returned(0)
             ELSE IF cur_in_roi.raised # "none" THEN cur_in_roi
             ELSE IF ~cur_in_roi.value THEN Returned(0)
             ELSE IF prev_on_in_side # current_on_in_side
                  THEN Returned(IF current_on_in_side THEN 1 ELSE -1)
             ELSE Returned(0)

\* update_object storing the position inside the ROI test only
update_object_store_in_roi(self, obj) ==
    LET track_id == obj.track_id
        current_reference == _get_reference_point(self, obj.bbox)
        change == crossing_change(self, track_id, current_reference.value)
        seen == track_id \in DOMAIN self.tracked_positions
        gated == seen /\
                 (~_is_point_in_roi(self, self.tracked_positions[track_id]).value
                  \/ ~_is_point_in_roi(self, current_reference.value).value)
    IN  IF current_reference.raised # "none"
        THEN [raised |-> current_reference.raised, self |-> self]
        ELSE IF change.raised # "none"
        THEN [raised |-> change.raised, self |-> self]
        ELSE IF gated THEN [raised |-> "none", self |-> self]
        ELSE [raised |-> "none",
              self |-> [self EXCEPT
                  !.count = @ + change.value,
                  !.tracked_positions = SetItem(@, track_id, current_reference.value)]]

\* update_object keeping the count from going below zero
update_object_floor(self, obj) ==
    LET track_id == obj.track_id
        current_reference == _get_reference_point(self, obj.bbox)
        change == crossing_change(self, track_id, current_reference.value)
    IN  IF current_reference.raised # "none"
        THEN [raised |-> current_reference.raised, self |-> self]
        ELSE IF change.raised # "none"
        THEN [raised |-> change.raised, self |-> self]
        ELSE [raised |-> "none",
              self |-> [self EXCEPT
                  !.count = Max(0, @ + change.value),
                  !.tracked_positions = SetItem(@, track_id, current_reference.value)]]

\* update_object keeping the position of the object's own track only
update_object_forgetful(self, obj) ==
    LET track_id == obj.track_id
        current_reference == _get_reference_point(self, obj.bbox)
        change == crossing_change(self, track_id, current_reference.value)
    IN  IF current_reference.raised # "none"
        THEN [raised |-> current_reference.raised, self |-> self]
        ELSE IF change.raised # "none"
        THEN [raised |-> change.raised, self |-> self]
        ELSE [raised |-> "none",
              self |-> [self EXCEPT
                  !.count = @ + change.value,
                  !.tracked_positions = SetItem(<<>>, track_id, current_reference.value)]]

\* update_object assigning the change to the count instead of adding it
update_object_assign(self, obj) ==
    LET track_id == obj.track_id
        current_reference == _get_reference_point(self, obj.bbox)
        change == crossing_change(self, track_id, current_reference.value)
    IN  IF current_reference.raised # "none"
        THEN [raised |-> current_reference.raised, self |-> self]
        ELSE IF change.raised # "none"
        THEN [raised |-> change.raised, self |-> self]
        ELSE [raised |-> "none",
              self |-> [self EXCEPT
                  !.count = change.value,
                  !.tracked_positions = SetItem(@, track_id, current_reference.value)]]

\* one pass of update's for loop: the counter after it, or the exception raised
\* (the counter is then as the earlier objects left it)
\* update_object exchanging the two line points as it stores the position
update_object_reorienting(self, obj) ==
    LET track_id == obj.track_id
        current_reference == _get_reference_point(self, obj.bbox)
        change == crossing_change(self, track_id, current_reference.value)
    IN  IF current_reference.raised # "none"
        THEN [raised |-> current_reference.raised, self |-> self]
        ELSE IF change.raised # "none"
        THEN [raised |-> change.raised, self |-> self]
        ELSE [raised |-> "none",
              self |-> [self EXCEPT
                  !.count = @ + change.value,
                  !.tracked_positions = SetItem(@, track_id, current_reference.value),
                  !.line_points = <<@[2], @[1]>>]]

update_object(self, obj) ==
    LET track_id == obj.track_id
        current_reference == _get_reference_point(self, obj.bbox)
        change == crossing_change(self, track_id, current_reference.value)
    IN  IF current_reference.raised # "none"
        THEN [raised |-> current_reference.raised, self |-> self]
        ELSE IF change.raised # "none"
        THEN [raised |-> change.raised, self |-> self]
        ELSE [raised |-> "none",
              self |-> [self EXCEPT
                  !.count = @ + change.value,
                  !.tracked_positions = SetItem(@, track_id, current_reference.value)]]

RECURSIVE update_from(_, _, _)
update_from(self, tracked_objects, i) ==
    IF i > Len(tracked_objects) THEN [raised |-> "none", self |-> self]
    ELSE LET r == update_object(self, tracked_objects[i])
         IN  IF r.raised # "none" THEN r ELSE update_from(r.self, tracked_objects, i + 1)

\* the track ids of a tracked_objects list
IdsOf(tracked_objects) == {tracked_objects[i].track_id : i \in DOMAIN tracked_objects}

\* update dropping the positions of the tracks that are not in the call
update_dropping_absent(self, tracked_objects) ==
    LET r == update_from(self, tracked_objects, 1)
        kept == [r.self EXCEPT !.tracked_positions =
                     [t \in (DOMAIN @) \cap IdsOf(tracked_objects) |-> @[t]]]
    IN  [self |-> kept,
         ret |-> IF r.raised # "none" THEN Raised(r.raised, <<>>)
                 ELSE Returned(r.self.count)]

\* update: the counter after the call and what the call returned or raised
update(self, tracked_objects) ==
    LET r == update_from(self, tracked_objects, 1)
    IN  [self |-> r.self,
         ret |-> IF r.raised # "none" THEN Raised(r.raised, <<>>)
                 ELSE Returned(r.self.count)]

----------------------------------------------------------------------------
(* Inputs *)

TrackIds == {1, 2}

\* a normalized point (a/4, b/4)
Quarter(a, b) == <<Rat(a, 4), Rat(b, 4)>>

\* the line_points arguments: a diagonal given lower point first and upper
\* point first, a horizontal line and a degenerate line
Lines == {<<Quarter(3, 3), Quarter(1, 1)>>,
          <<Quarter(1, 1), Quarter(3, 3)>>,
          <<Quarter(1, 1), Quarter(3, 1)>>,
          <<Quarter(1, 1), Quarter(1, 1)>>}

InSides == {"left", "right", "in"}

CriteriaArgs == CrossingCriteria \cup {"middle"}

\* (frame_width, frame_height)
FrameSizes == {<<4, 2>>, <<0, 2>>, <<4, 0>>}

\* bounding boxes (x1, y1, x2, y2) in pixels: one inside the frame, one with
\* x1 > x2 and y1 > y2, one with a negative and two out-of-frame coordinates
Boxes == {<<0, 0, 2, 2>>, <<3, 1, 1, 0>>, <<-2, 1, 8, 3>>}

TrackedObjects == [track_id : TrackIds, bbox : Boxes]

\* the lists of at most two tracked objects (a track id may occur twice)
TrackedObjectLists ==
    {<<>>} \cup {<<a>> : a \in TrackedObjects}
           \cup {<<a, b>> : a \in TrackedObjects, b \in TrackedObjects}

\* the masks a caller passes for a frame_width x frame_height frame: none, one
\* that is nonzero in the columns 1 and 2 only, one of the transposed shape
RoiMasks(frame_width, frame_height) ==
    {NoMask,
     MaskOf(frame_height, frame_width,
            {rc \in (0 .. frame_height - 1) \X (0 .. frame_width - 1) : rc[2] \in {1, 2}},
            255),
     FullMask(frame_width, frame_height, 1)}

----------------------------------------------------------------------------
(* The counters under test: "main" is constructed from the arguments, "flip"
   from the same arguments with the other in_side, "full" from the same
   arguments with a mask that is nonzero in every cell of the frame.  Every
   update call is made on all of them, with the same list.

   One update call of a run can be the call under observation: last_objs and
   prev record its argument and the counters it started from, and the run
   ends with it.  The calls before it leave no record, so that every reachable
   counter state meets every input list as the observed call. *)

Names == {"main", "flip", "full"}

OtherSide(in_side) == IF in_side = "left" THEN "right" ELSE "left"

NoCounters == <<>>

NoError == [raised |-> "none", msg |-> <<>>]

\* no test scenario is running
NoScenario == [running |-> FALSE]

\* the two counters of a reversal are not constructed
NoReversal == [constructed |-> FALSE]

\* CoordinateTransformer.__init__; no call of normalize_coordinates yet
CoordinateTransformer(frame_width, frame_height) ==
    [frame_width |-> frame_width, frame_height |-> frame_height, called |-> FALSE]

\* ROIManager.__init__ (the cache of drawing information is left out)
ROIManager == [roi_points |-> <<>>, is_drawing |-> FALSE, is_complete |-> FALSE]

\* BYTETracker as ByteTrack.__init__ constructs it: of the tracker underneath
\* only the calls of its update are modelled, each with the array it received
BYTETracker == [received |-> <<>>]

\* ByteTrack.__init__
ByteTrack == [tracker |-> BYTETracker, tracked_objects |-> <<>>, frame_id |-> 0]

\* PersonTracker.__init__ with tracker_type "bytetrack"; no call of update yet
PersonTracker == [tracker |-> ByteTrack, called |-> FALSE]

\* LineManager.__init__ (None is the empty tuple; the drawing cache is left out)
LineManager ==
    [line_start |-> <<>>, line_end |-> <<>>, selected_side |-> "None",
     drawing_line |-> FALSE]

\* VideoProcessor.__init__: cap is None (not opened, nothing to read) and
\* counter is None (the empty list; a counter is a list of one).  constructed
\* is not the program's: it tells whether the last call of setup_counter or
\* setup_counter_with_roi constructed a counter.
VideoProcessor ==
    [cap |-> [opened |-> FALSE, frames |-> 0],
     frame_width |-> 0,
     frame_height |-> 0,
     counter |-> <<>>,
     constructed |-> FALSE,
     is_running |-> FALSE,
     current_frame_number |-> 0,
     count |-> 0,
     count_history |-> <<>>,
     frame_history |-> <<>>]

\* a VideoProcessor after __init__ and set_callbacks, no method called yet.
\* processor is the VideoProcessor; the other fields are not the program's:
\* the last method called, the processor before that call, whether
\* process_next_frame returned a frame (None otherwise), the exception it
\* raised, the callbacks it called, what counter.update returned to it,
\* completions, the calls of complete_callback since the last call of
\* start_processing, and stopped, the processor as stop_processing left it
\* with whether process_next_frame was called since, while nothing was called
\* after stop_processing but process_next_frame on the stopped processor and
\* start_processing (the empty list otherwise)
NoProcessorCall ==
    [processor |-> VideoProcessor,
     called |-> FALSE,
     method |-> "__init__",
     before |-> VideoProcessor,
     frame |-> FALSE,
     raised |-> "none",
     callbacks |-> <<>>,
     updated |-> <<>>,
     completions |-> 0,
     stopped |-> <<>>]

\* ControlsWidget.setup_ui: the buttons and groups that are enabled
ControlsWidget ==
    [draw_line_btn |-> FALSE, side_group |-> FALSE, roi_group |-> FALSE,
     draw_roi_btn |-> TRUE, skip_roi_btn |-> TRUE, cancel_roi_btn |-> TRUE,
     cancel_roi_visible |-> FALSE, confirm_btn |-> FALSE]

\* PeopleCounterApp.__init__.  Three fields are not the program's.  A session
\* ends when a video is loaded or a new line is begun: counter_current tells
\* whether video_processor.counter was constructed in the session that is
\* running, discarded is the count and the tracks of the counter that one
\* replaced, and counted tells whether count_callback was called in this
\* session.
PeopleCounterApp ==
    [video_processor |-> VideoProcessor,
     coord_transformer |-> CoordinateTransformer(0, 0),
     line_manager |-> LineManager,
     roi_manager |-> ROIManager,
     is_processing |-> FALSE,
     line_drawn |-> FALSE,
     side_selected |-> FALSE,
     selected_side |-> "None",
     processing_timer |-> FALSE,
     video_display |-> [drawing_mode |-> "line", processing_active |-> FALSE,
                        is_drawing |-> FALSE],
     controls |-> ControlsWidget,
     counter_current |-> FALSE,
     discarded |-> <<>>,
     counted |-> FALSE]

\* no method has been called
NoCall == [called |-> FALSE]

\* no box is moving down
NoDescent == [running |-> FALSE]


Init ==
    /\ counters = NoCounters
    /\ error = NoError
    /\ ret = NoCounters
    /\ observed = FALSE
    /\ last_objs = <<>>
    /\ prev = NoCounters
    /\ failed = NoError
    /\ appeared = {}
    /\ absent = [track_id \in TrackIds |-> [gap |-> 0, point |-> <<>>]]
    /\ scenario = NoScenario
    /\ first_seen = <<>>
    /\ reversal = NoReversal
    /\ descent = NoDescent
    /\ transformer = CoordinateTransformer(0, 0)
    /\ roi_manager = ROIManager
    /\ tracker = PersonTracker
    /\ app = PeopleCounterApp
    /\ roi_call = NoCall
    /\ line_manager = [manager |-> LineManager, called |-> FALSE]
    /\ video_processor = NoProcessorCall

Construct(line_points, in_side, frame_width, frame_height, crossing_criteria, roi_mask) ==
    LET main == LineCrossingCounter(line_points, in_side, frame_width, frame_height,
                                    crossing_criteria, roi_mask)
        flip == LineCrossingCounter(line_points, OtherSide(in_side), frame_width,
                                    frame_height, crossing_criteria, roi_mask)
        full == LineCrossingCounter(line_points, in_side, frame_width, frame_height,
                                    crossing_criteria,
                                    FullMask(frame_height, frame_width, 1))
    IN  /\ error' = [raised |-> main.raised, msg |-> main.msg]
        /\ counters' = IF main.raised # "none" THEN NoCounters
                       ELSE [main |-> main.value, flip |-> flip.value, full |-> full.value]
        /\ failed' = IF main.raised # "none" THEN [raised |-> main.raised, msg |-> main.msg]
                      ELSE failed
        /\ UNCHANGED <<ret, observed, last_objs, prev, appeared, absent, scenario>>
        /\ UNCHANGED <<first_seen, reversal, descent, transformer, roi_manager, tracker, app, later_vars>>

Update(tracked_objects, observe) ==
    \E r \in {[n \in Names |-> update(counters[n], tracked_objects)]} :
        /\ \A n \in Names : Abs(r[n].self.count) <= MaxCount
        /\ counters' = [n \in Names |-> r[n].self]
        /\ ret' = [n \in Names |-> r[n].ret]
        /\ observed' = observe
        /\ last_objs' = IF observe THEN tracked_objects ELSE last_objs
        /\ prev' = IF observe THEN counters ELSE prev
        /\ appeared' = appeared \cup IdsOf(tracked_objects)
        /\ UNCHANGED <<error, failed, scenario>>
        /\ UNCHANGED <<reversal, descent, transformer, roi_manager, tracker, app, later_vars>>

\* the first constructor call
ConstructCounter ==
    /\ DOMAIN counters = {}
    /\ failed.raised = "none"
    /\ ~scenario.running
    /\ \E line_points \in Lines, in_side \in InSides,
          size \in FrameSizes, crossing_criteria \in CriteriaArgs :
          \E roi_mask \in RoiMasks(size[1], size[2]) :
              Construct(line_points, in_side, size[1], size[2], crossing_criteria, roi_mask)

\* a constructor call made after one that raised
RetryConstruct ==
    /\ DOMAIN counters = {}
    /\ failed.raised # "none"
    /\ \E line_points \in Lines, in_side \in InSides,
          size \in FrameSizes, crossing_criteria \in CriteriaArgs :
          \E roi_mask \in RoiMasks(size[1], size[2]) :
              Construct(line_points, in_side, size[1], size[2], crossing_criteria, roi_mask)

UpdateCounters ==
    /\ DOMAIN counters # {}
    /\ ~observed
    /\ \E tracked_objects \in TrackedObjectLists : Update(tracked_objects, FALSE)
    /\ UNCHANGED <<absent, first_seen>>

ObservedUpdate ==
    /\ DOMAIN counters # {}
    /\ ~observed
    /\ \E tracked_objects \in TrackedObjectLists : Update(tracked_objects, TRUE)
    /\ UNCHANGED <<absent, first_seen>>

Run == ConstructCounter \/ UpdateCounters

Next == ConstructCounter \/ UpdateCounters \/ ObservedUpdate

\* construction and update calls
SpecRun == Init /\ [][Run]_vars

\* the same, ending with an observed update call
Spec == Init /\ [][Next]_vars

\* the lists of at most one tracked object
ShortLists == {<<>>} \cup {<<a>> : a \in TrackedObjects}

\* absent after an update call: a track of the call is at gap 0 with the
\* reference point of its box (unless computing it raised); another track that
\* was given to an earlier call is one more call away from its point
AbsentAfter(tracked_objects) ==
    [t \in TrackIds |->
        IF t \in IdsOf(tracked_objects)
        THEN LET i == CHOOSE i \in DOMAIN tracked_objects : tracked_objects[i].track_id = t
                 ref == _get_reference_point(counters["main"], tracked_objects[i].bbox)
             IN  IF ref.raised # "none" THEN absent[t]
                 ELSE [gap |-> 0, point |-> ref.value]
        ELSE IF t \in appeared
        THEN [absent[t] EXCEPT !.gap = Min(@ + 1, MaxGap)]
        ELSE absent[t]]

\* an update call on at most one object, the absences being counted
GapUpdate ==
    /\ DOMAIN counters # {}
    /\ ~observed
    /\ \E tracked_objects \in ShortLists :
          /\ Update(tracked_objects, FALSE)
          /\ absent' = AbsentAfter(tracked_objects)
    /\ UNCHANGED first_seen

\* the observed update call on at most one object; absent stays as the call
\* found it
GapObservedUpdate ==
    /\ DOMAIN counters # {}
    /\ ~observed
    /\ \E tracked_objects \in ShortLists : Update(tracked_objects, TRUE)
    /\ UNCHANGED <<absent, first_seen>>

Gaps == ConstructCounter \/ GapUpdate \/ GapObservedUpdate

\* update calls with the absences counted, ending with an observed update call
SpecGap == Init /\ [][Gaps]_vars

Constructions == ConstructCounter \/ RetryConstruct

----------------------------------------------------------------------------
(* The scenarios of tests/test_counter.py.  A scenario constructs one counter
   and gives it the objects of a list, one object per update call, collecting
   the returned counts.  The counter is kept as its constructor arguments and
   its two fields that change, count and tracked_positions. *)

frame_dimensions == [width |-> 1000, height |-> 1000]

\* a normalized point (a/10, b/10)
Tenth(a, b) == <<Rat(a, 10), Rat(b, 10)>>

diagonal_line == <<Tenth(2, 2), Tenth(8, 8)>>

horizontal_line == <<Tenth(2, 5), Tenth(8, 5)>>

\* mask = np.zeros((height, width)); mask[200:800, 250:750] = 1
roi_mask_fixture ==
    MaskOf(frame_dimensions.height, frame_dimensions.width,
           (200 .. 799) \X (250 .. 749), 1)

horizontal_movement_objects ==
    <<[track_id |-> 1, bbox |-> <<300, 450, 400, 550>>],
      [track_id |-> 1, bbox |-> <<425, 450, 525, 550>>],
      [track_id |-> 1, bbox |-> <<455, 450, 555, 550>>],
      [track_id |-> 1, bbox |-> <<700, 450, 800, 550>>],
      [track_id |-> 1, bbox |-> <<470, 450, 570, 550>>],
      [track_id |-> 1, bbox |-> <<430, 450, 530, 550>>],
      [track_id |-> 1, bbox |-> <<300, 450, 400, 550>>]>>

movement_objects_in_roi ==
    <<[track_id |-> 1, bbox |-> <<400, 600, 500, 700>>],
      [track_id |-> 1, bbox |-> <<400, 300, 500, 400>>]>>

movement_objects_outside_roi ==
    <<[track_id |-> 1, bbox |-> <<50, 600, 150, 700>>],
      [track_id |-> 1, bbox |-> <<50, 300, 150, 400>>]>>

ObjectLists == {"horizontal_movement_objects", "movement_objects_in_roi",
                "movement_objects_outside_roi"}

ObjectsOf(name) ==
    IF name = "horizontal_movement_objects" THEN horizontal_movement_objects
    ELSE IF name = "movement_objects_in_roi" THEN movement_objects_in_roi
    ELSE movement_objects_outside_roi

\* the counter of the running scenario
ScenarioCounter ==
    [LineCrossingCounter(scenario.line_points, scenario.in_side,
                         frame_dimensions.width, frame_dimensions.height,
                         scenario.crossing_criteria,
                         IF scenario.masked THEN roi_mask_fixture ELSE NoMask).value
        EXCEPT !.count = scenario.count,
               !.tracked_positions = scenario.tracked_positions]

\* the test constructs its counter
StartScenario ==
    /\ ~scenario.running
    /\ DOMAIN counters = {}
    /\ failed.raised = "none"
    /\ \E line_points \in {diagonal_line, horizontal_line},
          in_side \in {"left", "right"},
          crossing_criteria \in CrossingCriteria,
          masked \in BOOLEAN,
          objects \in ObjectLists :
          \E c \in {LineCrossingCounter(line_points, in_side,
                                        frame_dimensions.width, frame_dimensions.height,
                                        crossing_criteria,
                                        IF masked THEN roi_mask_fixture ELSE NoMask)} :
              /\ c.raised = "none"
              /\ scenario' = [running |-> TRUE,
                              line_points |-> line_points,
                              in_side |-> in_side,
                              crossing_criteria |-> crossing_criteria,
                              masked |-> masked,
                              objects |-> objects,
                              fed |-> 0,
                              count |-> c.value.count,
                              tracked_positions |-> c.value.tracked_positions,
                              counts |-> <<>>]
    /\ UNCHANGED <<counter_vars, other_vars>>

\* count = counter.update([obj]); counts.append(count)
FeedObject ==
    /\ scenario.running
    /\ scenario.fed < Len(ObjectsOf(scenario.objects))
    /\ \E r \in {update(ScenarioCounter, <<ObjectsOf(scenario.objects)[scenario.fed + 1]>>)} :
          /\ r.ret.raised = "none"
          /\ scenario' = [scenario EXCEPT
                 !.fed = @ + 1,
                 !.count = r.self.count,
                 !.tracked_positions = r.self.tracked_positions,
                 !.counts = Append(@, r.ret.value)]
    /\ UNCHANGED <<counter_vars, other_vars>>

Tests == StartScenario \/ FeedObject

\* the test scenarios
SpecTest == Init /\ [][Tests]_vars

\* constructor calls only, repeated after a call that raised
SpecCtor == Init /\ [][Constructions]_vars

----------------------------------------------------------------------------
(* The observed call, object by object *)

\* counter n after the first i objects of the observed call were processed
After(n, i) ==
    IF i = 0 THEN prev[n]
    ELSE IF i = Len(last_objs) THEN counters[n]
    ELSE update(prev[n], SubSeq(last_objs, 1, i)).self

Returns(n) == observed /\ ret[n].raised = "none"

TrackOf(i) == last_objs[i].track_id

\* the reference point of the i-th object
CurRef(n, i) == _get_reference_point(counters[n], last_objs[i].bbox).value

\* whether the i-th object's track had a recorded position when its turn came
Seen(n, i) == TrackOf(i) \in DOMAIN After(n, i - 1).tracked_positions

PrevRef(n, i) == After(n, i - 1).tracked_positions[TrackOf(i)]

\* the change of the count made by the i-th object
ChangeBy(n, i) == After(n, i).count - After(n, i - 1).count

InRoi(n, point) == _is_point_in_roi(counters[n], point).value

OnInSide(n, point) == _is_point_on_in_side(counters[n], point)

HasMask(n) == ~counters[n].roi_mask.is_none

Positions(n) == counters[n].tracked_positions

\* C1: an object seen before, with its prior and current reference points both
\* inside the ROI (or no mask), changes the count by +1 when it moved from not
\* IN to IN, by -1 when it moved from IN to not IN, and by 0 otherwise
C1_CrossingChange ==
    \A n \in DOMAIN counters : Returns(n) =>
        \A i \in 1 .. Len(last_objs) :
            (Seen(n, i) /\ InRoi(n, PrevRef(n, i)) /\ InRoi(n, CurRef(n, i))) =>
                ChangeBy(n, i) =
                    IF ~OnInSide(n, PrevRef(n, i)) /\ OnInSide(n, CurRef(n, i)) THEN 1
                    ELSE IF OnInSide(n, PrevRef(n, i)) /\ ~OnInSide(n, CurRef(n, i)) THEN -1
                    ELSE 0

\* an observed call in which one track is seen twice and crosses back: both
\* objects change the count, the first by -1 and the second by +1 (no debouncing)
C1_Witness ==
    /\ Returns("main") /\ HasMask("main") /\ Len(last_objs) = 2
    /\ TrackOf(1) = TrackOf(2)
    /\ Seen("main", 1) /\ InRoi("main", PrevRef("main", 1)) /\ InRoi("main", CurRef("main", 2))
    /\ ChangeBy("main", 1) = -1 /\ ChangeBy("main", 2) = 1

\* C2: an object whose track has no recorded position leaves the count as it
\* is and records its reference point as the track's position, nothing else
C2_FirstSighting ==
    \A n \in DOMAIN counters : Returns(n) =>
        \A i \in 1 .. Len(last_objs) :
            ~Seen(n, i) =>
                /\ ChangeBy(n, i) = 0
                /\ After(n, i) = [After(n, i - 1) EXCEPT
                       !.tracked_positions = SetItem(@, TrackOf(i), CurRef(n, i))]

\* a first sighting on the IN side and outside the ROI, in a call that also
\* holds a first sighting that is not on the IN side
C2_Witness ==
    /\ Returns("main") /\ HasMask("main") /\ Len(last_objs) = 2
    /\ ~Seen("main", 1) /\ ~Seen("main", 2)
    /\ OnInSide("main", CurRef("main", 1)) /\ ~InRoi("main", CurRef("main", 1))
    /\ ~OnInSide("main", CurRef("main", 2))
    /\ counters["main"].count = prev["main"].count
    /\ DOMAIN prev["main"].tracked_positions = {}
    /\ DOMAIN Positions("main") = {TrackOf(1), TrackOf(2)}

\* C3: with a mask configured, an object seen before whose prior or current
\* reference point is outside the ROI leaves the count as it is
C3_RoiGate ==
    \A n \in DOMAIN counters : (Returns(n) /\ HasMask(n)) =>
        \A i \in 1 .. Len(last_objs) :
            (Seen(n, i) /\ (~InRoi(n, PrevRef(n, i)) \/ ~InRoi(n, CurRef(n, i)))) =>
                ChangeBy(n, i) = 0

\* a track goes from inside the ROI to outside it and to the other side of the line
C3_Witness ==
    /\ Returns("main") /\ HasMask("main") /\ Len(last_objs) = 1
    /\ Seen("main", 1)
    /\ InRoi("main", PrevRef("main", 1)) /\ ~InRoi("main", CurRef("main", 1))
    /\ OnInSide("main", PrevRef("main", 1)) # OnInSide("main", CurRef("main", 1))
    /\ counters["main"].count = prev["main"].count

\* the last object of the observed call that carries the track id
LastIndexOf(track_id) ==
    CHOOSE i \in 1 .. Len(last_objs) :
        /\ TrackOf(i) = track_id
        /\ \A j \in (i + 1) .. Len(last_objs) : TrackOf(j) # track_id

\* C4: after an update call the stored position of every track id of its input
\* is the reference point of that track's bounding box in the call (of its last
\* one, should the id occur twice)
C4_PositionStored ==
    \A n \in DOMAIN counters : Returns(n) =>
        \A i \in 1 .. Len(last_objs) :
            /\ TrackOf(i) \in DOMAIN Positions(n)
            /\ Positions(n)[TrackOf(i)] = CurRef(n, LastIndexOf(TrackOf(i)))

\* a track seen inside the ROI moves outside it: no crossing is counted and the
\* new point is stored
C4_Witness ==
    /\ Returns("main") /\ HasMask("main") /\ Len(last_objs) = 1
    /\ Seen("main", 1)
    /\ ~InRoi("main", CurRef("main", 1))
    /\ PrevRef("main", 1) # CurRef("main", 1)
    /\ Positions("main")[TrackOf(1)] = CurRef("main", 1)

----------------------------------------------------------------------------
(* The counters side by side *)

OnLine(n, point) == RZero(cross_product(counters[n], point))

\* an update call has been made on the counters
Updated == DOMAIN counters # {} /\ DOMAIN ret # {}

\* C5: a counter and its twin with the other in_side, given the same update
\* calls, hold and return counts that are the negation of each other after
\* every call (both raise when one does), and store the same positions
C5_SidesNegate ==
    Updated =>
        /\ ret["flip"].raised = ret["main"].raised
        /\ ret["flip"].value = -ret["main"].value
        /\ counters["flip"].count = -counters["main"].count
        /\ Positions("flip") = Positions("main")

\* the in_side "right" counter with a mask returned 1 and its twin -1, the
\* track's stored point lying exactly on the line
C5_Witness ==
    /\ Updated /\ HasMask("main")
    /\ counters["main"].in_side = "right"
    /\ ret["main"].raised = "none" /\ ret["main"].value = 1
    /\ ret["flip"].raised = "none" /\ ret["flip"].value = -1
    /\ \E t \in DOMAIN Positions("main") : OnLine("main", Positions("main")[t])

\* C6 as stated: whichever in_side the counter has, a point with cross product
\* 0 is classified as not on the IN side
C6_OnLineNotIn ==
    \A n \in DOMAIN counters : \A t \in DOMAIN Positions(n) :
        OnLine(n, Positions(n)[t]) => ~OnInSide(n, Positions(n)[t])

\* C6: a point with cross product 0 is classified as not on the IN side by a
\* counter with in_side "left" and as on the IN side by one with in_side "right"
C6_OnLineTieBreak ==
    \A n \in DOMAIN counters : \A t \in DOMAIN Positions(n) :
        OnLine(n, Positions(n)[t]) =>
            (OnInSide(n, Positions(n)[t]) <=> counters[n].in_side = "right")

\* an in_side "right" counter on a line of two distinct points has counted an
\* entry for a track whose stored point is on the line and classified IN
C6_Witness ==
    /\ Updated
    /\ counters["main"].in_side = "right"
    /\ counters["main"].line_points[1] # counters["main"].line_points[2]
    /\ counters["main"].count = 1
    /\ \E t \in DOMAIN Positions("main") :
          /\ OnLine("main", Positions("main")[t])
          /\ OnInSide("main", Positions("main")[t])

\* C7: a counter without a mask and its twin whose mask is nonzero in every
\* cell of the frame, given the same update calls, return the same after every
\* call and hold the same count and positions
C7_NoMaskIsFullMask ==
    (Updated /\ ~HasMask("main")) =>
        /\ ret["full"] = ret["main"]
        /\ counters["full"].count = counters["main"].count
        /\ Positions("full") = Positions("main")

\* the two have counted a crossing, one of the stored points being outside the
\* frame (to the right of it, or above it)
C7_Witness ==
    /\ Updated /\ ~HasMask("main") /\ HasMask("full")
    /\ ret["main"].raised = "none" /\ ret["main"].value # 0
    /\ ret["full"].value = ret["main"].value
    /\ \E t \in DOMAIN Positions("full") :
          \/ RLe(RInt(1), Positions("full")[t][1])
          \/ RNegative(Positions("full")[t][2])

\* C8: an update call on two objects of distinct track ids returns the same
\* count and leaves the same count and stored positions when the two objects
\* are given in the other order
C8_OrderIndependent ==
    \A n \in DOMAIN counters :
        (Returns(n) /\ Len(last_objs) = 2 /\ TrackOf(1) # TrackOf(2)) =>
            \E r \in {update(prev[n], <<last_objs[2], last_objs[1]>>)} :
                /\ r.ret = ret[n]
                /\ r.self.count = counters[n].count
                /\ r.self.tracked_positions = Positions(n)

\* two tracks seen before cross in one call, the first into the IN side and
\* the second out of it
C8_Witness ==
    /\ Returns("main") /\ Len(last_objs) = 2 /\ TrackOf(1) # TrackOf(2)
    /\ Seen("main", 1) /\ Seen("main", 2)
    /\ ChangeBy("main", 1) = 1 /\ ChangeBy("main", 2) = -1

\* C9 as stated: no update call on a constructed counter raises
C9_UpdateNeverRaises ==
    \A n \in DOMAIN ret : ret[n].raised = "none"

\* C9: no update call on a counter constructed with a positive frame_width
\* and a positive frame_height raises; it returns the count
C9_UpdateReturns ==
    \A n \in DOMAIN ret :
        (counters[n].frame_width > 0 /\ counters[n].frame_height > 0) =>
            /\ ret[n].raised = "none"
            /\ ret[n].value = counters[n].count

\* a call on a counter with a mask returns for a box with x1 > x2 and y1 > y2
\* and a box reaching out of the frame, given for a track whose stored point
\* was left of the frame
C9_Witness ==
    /\ Returns("main") /\ HasMask("main") /\ Len(last_objs) = 2
    /\ last_objs[1].bbox[1] > last_objs[1].bbox[3]
    /\ last_objs[1].bbox[2] > last_objs[1].bbox[4]
    /\ last_objs[2].bbox[1] < 0
    /\ last_objs[2].bbox[3] > counters["main"].frame_width
    /\ Seen("main", 2)
    /\ RNegative(PrevRef("main", 2)[1])

MaskMatches(roi_mask, frame_width, frame_height) ==
    roi_mask.is_none \/ roi_mask.shape = <<frame_height, frame_width>>

\* C10: a constructor call with a mask whose shape is not (frame_height,
\* frame_width) raises ValueError and leaves no counter; the error names the
\* two shapes when in_side and crossing_criteria are valid; a counter that
\* exists holds no mask or a mask of the frame's shape, the one it was given
C10_MaskShapeChecked ==
    /\ [](\A n \in DOMAIN counters :
            MaskMatches(counters[n].roi_mask, counters[n].frame_width,
                        counters[n].frame_height))
    /\ [][\A line_points \in Lines, in_side \in InSides,
             size \in FrameSizes, crossing_criteria \in CriteriaArgs :
             \A roi_mask \in RoiMasks(size[1], size[2]) :
                 (/\ DOMAIN counters = {}
                  /\ Construct(line_points, in_side, size[1], size[2],
                               crossing_criteria, roi_mask)) =>
                     IF MaskMatches(roi_mask, size[1], size[2])
                     THEN DOMAIN counters' # {} =>
                              counters'["main"].roi_mask = roi_mask
                     ELSE /\ DOMAIN counters' = {}
                          /\ error'.raised = "ValueError"
                          /\ (in_side \in {"left", "right"}
                              /\ crossing_criteria \in CrossingCriteria) =>
                                 /\ Len(error'.msg) = 3
                                 /\ error'.msg[2] = roi_mask.shape
                                 /\ error'.msg[3] = <<size[2], size[1]>>]_vars

\* the constructor call for a 4 x 2 frame with a mask of shape (4, 2) raised
\* the ValueError that names (4, 2) and (2, 4), and no counter exists
C10_Witness ==
    /\ DOMAIN counters = {}
    /\ error.raised = "ValueError"
    /\ Len(error.msg) = 3
    /\ error.msg[2] = <<4, 2>>
    /\ error.msg[3] = <<2, 4>>

----------------------------------------------------------------------------
(* Constructor calls *)

ValidArgs(in_side, frame_width, frame_height, crossing_criteria, roi_mask) ==
    /\ in_side \in {"left", "right"}
    /\ crossing_criteria \in CrossingCriteria
    /\ MaskMatches(roi_mask, frame_width, frame_height)

\* C11: a constructor call with an in_side other than "left" and "right"
\* raises ValueError and leaves no counter; a constructor call with valid
\* arguments returns a new counter (count 0, no positions, holding its
\* arguments) whether or not an earlier call raised
C11_InSideRejected ==
    [][DOMAIN counters = {} =>
          \A line_points \in Lines, in_side \in InSides,
             size \in FrameSizes, crossing_criteria \in CriteriaArgs :
             \A roi_mask \in RoiMasks(size[1], size[2]) :
                 Construct(line_points, in_side, size[1], size[2],
                           crossing_criteria, roi_mask) =>
                     IF in_side \notin {"left", "right"}
                     THEN /\ DOMAIN counters' = {}
                          /\ error'.raised = "ValueError"
                          /\ error'.msg = <<"in_side must be either 'left' or 'right'">>
                     ELSE ValidArgs(in_side, size[1], size[2], crossing_criteria, roi_mask) =>
                          /\ error'.raised = "none"
                          /\ DOMAIN counters' # {}
                          /\ counters'["main"].count = 0
                          /\ counters'["main"].tracked_positions = <<>>
                          /\ counters'["main"].in_side = in_side
                          /\ counters'["main"].frame_width = size[1]
                          /\ counters'["main"].frame_height = size[2]
                          /\ counters'["main"].crossing_criteria = crossing_criteria
                          /\ counters'["main"].roi_mask = roi_mask]_vars

\* a counter exists, constructed after a call that raised for its in_side
C11_Witness ==
    /\ DOMAIN counters # {}
    /\ error.raised = "none"
    /\ failed.raised = "ValueError"
    /\ Len(failed.msg) = 1
    /\ counters["main"].count = 0
    /\ HasMask("main")

----------------------------------------------------------------------------
(* The running count *)

\* what the crossing rule gives for the i-th object of the observed call
ExpectedChange(n, i) ==
    IF ~Seen(n, i) THEN 0
    ELSE IF ~InRoi(n, PrevRef(n, i)) \/ ~InRoi(n, CurRef(n, i)) THEN 0
    ELSE IF OnInSide(n, PrevRef(n, i)) = OnInSide(n, CurRef(n, i)) THEN 0
    ELSE IF OnInSide(n, CurRef(n, i)) THEN 1 ELSE -1

RECURSIVE SumOfChanges(_, _)
SumOfChanges(n, i) ==
    IF i = 0 THEN 0 ELSE SumOfChanges(n, i - 1) + ExpectedChange(n, i)

\* C12: the count is 0 before the first update call; an update call that
\* returns has changed it, object by object, by -1, 0 or +1, to the count it
\* had before plus the sum of the objects' crossing changes, and returns it
C12_RunningCount ==
    \A n \in DOMAIN counters :
        /\ DOMAIN ret = {} => counters[n].count = 0
        /\ (n \in DOMAIN ret /\ ret[n].raised = "none") =>
               ret[n].value = counters[n].count
        /\ Returns(n) =>
            /\ \A i \in 1 .. Len(last_objs) : ChangeBy(n, i) \in {-1, 0, 1}
            /\ counters[n].count =
                   prev[n].count + SumOfChanges(n, Len(last_objs))

\* a counter at 1 is given two tracks that both leave the IN side: it returns -1
C12_Witness ==
    /\ Returns("main") /\ Len(last_objs) = 2
    /\ prev["main"].count = 1
    /\ ChangeBy("main", 1) = -1 /\ ChangeBy("main", 2) = -1
    /\ ret["main"].value = -1

----------------------------------------------------------------------------
(* The recorded tracks *)

PositiveFrame(n) == counters[n].frame_width > 0 /\ counters[n].frame_height > 0

\* C13: the track ids with a recorded position are, on a counter with a
\* positive frame size, exactly the ids given to some update call so far, and
\* no step of any counter removes an id from them
C13_TracksOnlyGrow ==
    /\ [](\A n \in DOMAIN counters :
             PositiveFrame(n) => DOMAIN Positions(n) = appeared)
    /\ [][\A n \in DOMAIN counters :
             DOMAIN counters[n].tracked_positions
                 \subseteq DOMAIN counters'[n].tracked_positions]_vars

\* both tracks were recorded before a call that is given track 1 only, and
\* both are recorded after it
C13_Witness ==
    /\ Returns("main") /\ Len(last_objs) = 1 /\ TrackOf(1) = 1
    /\ DOMAIN prev["main"].tracked_positions = {1, 2}
    /\ DOMAIN Positions("main") = {1, 2}
    /\ appeared = {1, 2}

----------------------------------------------------------------------------
(* Reappearing tracks *)

\* what the crossing rule gives between two points
ChangeBetween(n, prev_reference, current_reference) ==
    IF ~InRoi(n, prev_reference) \/ ~InRoi(n, current_reference) THEN 0
    ELSE IF OnInSide(n, prev_reference) = OnInSide(n, current_reference) THEN 0
    ELSE IF OnInSide(n, current_reference) THEN 1 ELSE -1

\* C14: a track given to an update call after one or more calls without it is
\* not a first sighting: its point is compared with the point of its last
\* appearance, and the count changes by what the crossing rule gives between
\* the two (+1 or -1 when they are on different sides and inside the ROI)
C14_ReappearanceCompared ==
    \A n \in DOMAIN counters :
        (Returns(n) /\ Len(last_objs) = 1 /\ absent[TrackOf(1)].gap >= 1) =>
            /\ Seen(n, 1)
            /\ PrevRef(n, 1) = absent[TrackOf(1)].point
            /\ ChangeBy(n, 1) =
                   ChangeBetween(n, absent[TrackOf(1)].point, CurRef(n, 1))

\* a track comes back after MaxGap calls without it, on the other side of the
\* line, and the count of a counter with a mask goes up by one
C14_Witness ==
    /\ Returns("main") /\ HasMask("main") /\ Len(last_objs) = 1
    /\ absent[TrackOf(1)].gap = MaxGap
    /\ ~OnInSide("main", absent[TrackOf(1)].point)
    /\ OnInSide("main", CurRef("main", 1))
    /\ ChangeBy("main", 1) = 1

\* the y of point p is greater than the y of point q
Below(p, q) == p[2][1] * q[2][2] > q[2][1] * p[2][2]

\* C15: the line a constructed counter stores is the two points it was given,
\* exchanged when the first one's y is greater than the second one's and in the
\* order given otherwise (equal y included); the stored p1.y is never greater
\* than the stored p2.y
C15_LineCanonical ==
    /\ [](\A n \in DOMAIN counters :
             ~Below(counters[n].line_points[1], counters[n].line_points[2]))
    /\ [][DOMAIN counters = {} =>
             \A line_points \in Lines, in_side \in InSides,
                size \in FrameSizes, crossing_criteria \in CriteriaArgs :
                \A roi_mask \in RoiMasks(size[1], size[2]) :
                    (/\ Construct(line_points, in_side, size[1], size[2],
                                  crossing_criteria, roi_mask)
                     /\ DOMAIN counters' # {}) =>
                        counters'["main"].line_points =
                            IF Below(line_points[1], line_points[2])
                            THEN <<line_points[2], line_points[1]>>
                            ELSE line_points]_vars

\* a counter stores the diagonal line, which is given in both orders, with the
\* point of smaller y first
C15_Witness ==
    /\ DOMAIN counters # {}
    /\ counters["main"].line_points = <<Quarter(1, 1), Quarter(3, 3)>>
    /\ Below(counters["main"].line_points[2], counters["main"].line_points[1])

----------------------------------------------------------------------------
(* Reference points and the ROI test *)

\* the rational r is the integer k divided by the integer d (d # 0)
IsQuotient(r, k, d) == r[2] # 0 /\ r[1] * d = k * r[2]

\* the point is the one the claim's formulas give for the box under the
\* criterion in a frame of width W and height H
IsReferencePoint(point, criterion, bbox, W, H) ==
    LET x1 == bbox[1]
        y1 == bbox[2]
        x2 == bbox[3]
        y2 == bbox[4]
    IN  /\ criterion \in {"center", "top", "bottom"} =>
               IsQuotient(point[1], x1 + x2, 2 * W)
        /\ criterion \in {"center", "left", "right"} =>
               IsQuotient(point[2], y1 + y2, 2 * H)
        /\ criterion = "top" => IsQuotient(point[2], y1, H)
        /\ criterion = "bottom" => IsQuotient(point[2], y2, H)
        /\ criterion = "left" => IsQuotient(point[1], x1, W)
        /\ criterion = "right" => IsQuotient(point[1], x2, W)

\* C16: on a counter with a positive frame size, _get_reference_point returns
\* for every box and each of the five criteria the point of the formulas:
\* ((x1+x2)/2/W, (y1+y2)/2/H) for center, ((x1+x2)/2/W, y1/H) for top,
\* ((x1+x2)/2/W, y2/H) for bottom, (x1/W, (y1+y2)/2/H) for left and
\* (x2/W, (y1+y2)/2/H) for right; it is the point update computes and stores
C16_ReferencePoint ==
    \A n \in DOMAIN counters : PositiveFrame(n) =>
        /\ counters[n].crossing_criteria \in CrossingCriteria
        /\ \A bbox \in Boxes :
              /\ _get_reference_point(counters[n], bbox).raised = "none"
              /\ IsReferencePoint(_get_reference_point(counters[n], bbox).value,
                                  counters[n].crossing_criteria, bbox,
                                  counters[n].frame_width, counters[n].frame_height)
        /\ (Returns(n) /\ Len(last_objs) = 1) =>
              IsReferencePoint(Positions(n)[TrackOf(1)],
                               counters[n].crossing_criteria, last_objs[1].bbox,
                               counters[n].frame_width, counters[n].frame_height)

\* the left-edge point (-2/4, 2/2) of the box (-2, 1, 8, 3) in the 4 x 2 frame
\* has been computed and stored by an update call
C16_Witness ==
    /\ Returns("main") /\ Len(last_objs) = 1
    /\ counters["main"].crossing_criteria = "left"
    /\ last_objs[1].bbox = <<-2, 1, 8, 3>>
    /\ Positions("main")[TrackOf(1)] = <<Rat(-1, 2), RInt(1)>>

\* the integer part of the rational a times the integer k (-16 <= a * k <= 16)
Trunc(a, k) ==
    CHOOSE t \in -16 .. 16 :
        IF a[1] >= 0
        THEN t * a[2] <= a[1] * k /\ a[1] * k < (t + 1) * a[2]
        ELSE (t - 1) * a[2] < a[1] * k /\ a[1] * k <= t * a[2]

Clamp(v, lo, hi) == IF v < lo THEN lo ELSE IF v > hi THEN hi ELSE v

\* points with a negative y, coordinates above 1 and pixels between two cells
ProbePoints ==
    {<<Rat(-1, 8), Rat(-5, 4)>>, <<Rat(9, 8), Rat(9, 8)>>,
     <<Rat(3, 8), Rat(3, 8)>>, <<Rat(7, 8), Rat(-1, 8)>>}

\* the points of counter n: the stored ones, the reference points of the boxes
\* and the probe points
PointsOf(n) ==
    {Positions(n)[t] : t \in DOMAIN Positions(n)}
        \cup {_get_reference_point(counters[n], bbox).value : bbox \in Boxes}
        \cup ProbePoints

\* C17: on a counter with a positive frame size, _is_point_in_roi returns true
\* for every point when there is no mask; with a mask it returns, for every
\* point, whether the cell at row clamp(trunc(y * frame_height), 0,
\* frame_height - 1) and column clamp(trunc(x * frame_width), 0,
\* frame_width - 1) is nonzero; the cell is inside the mask and nothing is raised
C17_RoiLookup ==
    \A n \in DOMAIN counters : PositiveFrame(n) =>
        \A point \in PointsOf(n) :
            LET row == Clamp(Trunc(point[2], counters[n].frame_height),
                             0, counters[n].frame_height - 1)
                col == Clamp(Trunc(point[1], counters[n].frame_width),
                             0, counters[n].frame_width - 1)
                r == _is_point_in_roi(counters[n], point)
            IN  /\ r.raised = "none"
                /\ ~HasMask(n) => r.value = TRUE
                /\ HasMask(n) =>
                      /\ <<row, col>> \in DOMAIN counters[n].roi_mask.cells
                      /\ r.value = (counters[n].roi_mask.cells[<<row, col>>] # 0)

\* a track inside the ROI moves to a point with x > 1 and y >= 1, which is
\* looked up in the last column and row of the mask and found outside the ROI
C17_Witness ==
    /\ Returns("main") /\ HasMask("main") /\ Len(last_objs) = 1
    /\ Seen("main", 1)
    /\ InRoi("main", PrevRef("main", 1))
    /\ RLe(RInt(2), CurRef("main", 1)[1])
    /\ RLe(RInt(1), CurRef("main", 1)[2])
    /\ ~InRoi("main", CurRef("main", 1))

----------------------------------------------------------------------------
(* The test scenarios *)

ScenarioIs(line_points, in_side, crossing_criteria, masked, objects) ==
    /\ scenario.running
    /\ scenario.line_points = line_points
    /\ scenario.in_side = in_side
    /\ scenario.crossing_criteria = crossing_criteria
    /\ scenario.masked = masked
    /\ scenario.objects = objects

\* the counts collected so far are the first ones of the expected counts
CountsFollow(expected) ==
    /\ scenario.fed <= Len(expected)
    /\ scenario.counts = SubSeq(expected, 1, scenario.fed)

\* C18: the diagonal line from (0.2, 0.2) to (0.8, 0.8), the 1000 x 1000
\* frame, the center criterion, no mask, one track with box centers at
\* x = 350, 475, 505, 750, 520, 480, 350 (y = 500), one object per call: the
\* counts returned are 0, 0, -1, -1, -1, 0, 0 with in_side "left" and
\* 0, 0, 1, 1, 1, 0, 0 with in_side "right"
C18_SideCrossingCounts ==
    /\ ScenarioIs(diagonal_line, "left", "center", FALSE, "horizontal_movement_objects")
           => CountsFollow(<<0, 0, -1, -1, -1, 0, 0>>)
    /\ ScenarioIs(diagonal_line, "right", "center", FALSE, "horizontal_movement_objects")
           => CountsFollow(<<0, 0, 1, 1, 1, 0, 0>>)

\* the in_side "right" scenario has been given its seven objects; it went up
\* to 1 at the third and back to 0 at the sixth
C18_Witness ==
    /\ ScenarioIs(diagonal_line, "right", "center", FALSE, "horizontal_movement_objects")
    /\ scenario.fed = 7
    /\ scenario.counts[2] = 0 /\ scenario.counts[3] = 1
    /\ scenario.counts[5] = 1 /\ scenario.counts[6] = 0

\* C19: the same line, frame and boxes with in_side "left": the counts are
\* 0, -1, -1, -1, -1, -1, 0 under the top and the right criterion and
\* 0, 0, 0, -1, 0, 0, 0 under the bottom and the left criterion
C19_CriterionTiming ==
    /\ \A crossing_criteria \in {"top", "right"} :
          ScenarioIs(diagonal_line, "left", crossing_criteria, FALSE,
                     "horizontal_movement_objects")
              => CountsFollow(<<0, -1, -1, -1, -1, -1, 0>>)
    /\ \A crossing_criteria \in {"bottom", "left"} :
          ScenarioIs(diagonal_line, "left", crossing_criteria, FALSE,
                     "horizontal_movement_objects")
              => CountsFollow(<<0, 0, 0, -1, 0, 0, 0>>)

\* the top scenario has registered the crossing at the second object, where
\* the bottom scenario registers it only at the fourth
C19_Witness ==
    /\ ScenarioIs(diagonal_line, "left", "top", FALSE, "horizontal_movement_objects")
    /\ scenario.fed = 7
    /\ scenario.counts[1] = 0 /\ scenario.counts[2] = -1
    /\ scenario.counts[6] = -1 /\ scenario.counts[7] = 0

\* C20: the horizontal line ((0.2, 0.5), (0.8, 0.5)), in_side "left", the
\* center criterion, the 1000 x 1000 frame and the mask that is nonzero on
\* the rows 200..799 and the columns 250..749: the track moving from center
\* (450, 650) to (450, 350) gives the counts 0, -1 and the track moving from
\* (100, 650) to (100, 350) gives 0, 0
C20_RoiScenarios ==
    /\ ScenarioIs(horizontal_line, "left", "center", TRUE, "movement_objects_in_roi")
           => CountsFollow(<<0, -1>>)
    /\ ScenarioIs(horizontal_line, "left", "center", TRUE, "movement_objects_outside_roi")
           => CountsFollow(<<0, 0>>)

\* the scenario outside the ROI has ended: the track is on the other side of
\* the line, outside the ROI, and the count is still 0
C20_Witness ==
    /\ ScenarioIs(horizontal_line, "left", "center", TRUE, "movement_objects_outside_roi")
    /\ scenario.fed = 2
    /\ scenario.counts = <<0, 0>>
    /\ ~_is_point_on_in_side(ScenarioCounter, scenario.tracked_positions[1])
    /\ ~_is_point_in_roi(ScenarioCounter, scenario.tracked_positions[1]).value

----------------------------------------------------------------------------
(* A box moving down across a horizontal line.  Two counters that differ in
   the crossing criterion only, "top" and "bottom", are given the same track,
   one box per update call.  The box starts entirely above the line and each
   call gives a box whose edges are no higher than before, until the box is
   entirely below the line. *)

\* (frame_width, frame_height) of the descent
DescentFrame == <<4, 8>>

\* the horizontal line at half the frame height, in both endpoint orders
DescentLines == {<<Quarter(1, 2), Quarter(3, 2)>>, <<Quarter(3, 2), Quarter(1, 2)>>}

\* the y of the line, in pixels
DescentLineY == DescentFrame[2] \div 2

EntirelyAbove(bbox) == bbox[4] < DescentLineY

EntirelyBelow(bbox) == bbox[2] > DescentLineY

\* the first update call of a descent at which a count changed (0: none yet)
FirstChange(first_change, step, before, after) ==
    IF first_change = 0 /\ after # before THEN step ELSE first_change

\* the two counters are constructed and given the box above the line
StartDescent ==
    /\ ~descent.running
    /\ ~scenario.running
    /\ DOMAIN counters = {}
    /\ failed.raised = "none"
    /\ \E line_points \in DescentLines, in_side \in {"left", "right"},
          y1 \in 0 .. DescentLineY, y2 \in 0 .. DescentLineY :
          \E bbox \in {<<1, y1, 3, y2>>} :
              /\ y1 < y2
              /\ EntirelyAbove(bbox)
              /\ \E r \in {[c \in {"top", "bottom"} |->
                              update(LineCrossingCounter(line_points, in_side,
                                                         DescentFrame[1], DescentFrame[2],
                                                         c, NoMask).value,
                                     <<[track_id |-> 1, bbox |-> bbox]>>)]} :
                    descent' = [running |-> TRUE,
                                bbox |-> bbox,
                                step |-> 1,
                                counters |-> [c \in {"top", "bottom"} |-> r[c].self],
                                first_change |-> [c \in {"top", "bottom"} |->
                                    FirstChange(0, 1, 0, r[c].self.count)]]
    /\ UNCHANGED <<counter_vars, scenario>>
    /\ UNCHANGED <<first_seen, reversal, transformer, roi_manager, tracker, app, later_vars>>

\* the next update call: the box has moved down
MoveDown ==
    /\ descent.running
    /\ ~EntirelyBelow(descent.bbox)
    /\ \E y1 \in descent.bbox[2] .. DescentFrame[2], y2 \in descent.bbox[4] .. DescentFrame[2] :
          \E bbox \in {<<1, y1, 3, y2>>} :
              /\ y1 < y2
              /\ bbox # descent.bbox
              /\ \E r \in {[c \in {"top", "bottom"} |->
                              update(descent.counters[c],
                                     <<[track_id |-> 1, bbox |-> bbox]>>)]} :
                    descent' = [descent EXCEPT
                        !.bbox = bbox,
                        !.step = @ + 1,
                        !.counters = [c \in {"top", "bottom"} |-> r[c].self],
                        !.first_change = [c \in {"top", "bottom"} |->
                            FirstChange(@[c], descent.step + 1,
                                        descent.counters[c].count, r[c].self.count)]]
    /\ UNCHANGED <<counter_vars, scenario>>
    /\ UNCHANGED <<first_seen, reversal, transformer, roi_manager, tracker, app, later_vars>>

Descents == StartDescent \/ MoveDown

\* boxes moving down across a horizontal line
SpecDescent == Init /\ [][Descents]_vars

\* the box has arrived entirely below the line
Descended == descent.running /\ EntirelyBelow(descent.bbox)

\* C21 as stated: the counter using the top criterion registers the crossing
\* at an update no later than the counter using the bottom criterion
C21_TopNoLater ==
    Descended => descent.first_change["top"] <= descent.first_change["bottom"]

\* C21: for a horizontal line and a box of positive height moving down from
\* entirely above the line to entirely below it, the counter using the bottom
\* criterion registers the crossing (first changes its count) at an update no
\* later than the counter using the top criterion, and both have registered
\* it when the box is entirely below
C21_BottomNoLater ==
    /\ descent.running /\ descent.first_change["top"] # 0
           => /\ descent.first_change["bottom"] # 0
              /\ descent.first_change["bottom"] <= descent.first_change["top"]
    /\ Descended => descent.first_change["top"] # 0

\* a box that was given astride the line: bottom registered before top did
C21_Witness ==
    /\ Descended
    /\ descent.first_change["bottom"] # 0
    /\ descent.first_change["bottom"] < descent.first_change["top"]

----------------------------------------------------------------------------
(* The line points in opposite orders.  Counter "given" is constructed from
   the arguments, counter "reversed" from the same arguments with the two
   line points exchanged; every update call is made on both. *)

Orders == {"given", "reversed"}

Reversed(line_points) == <<line_points[2], line_points[1]>>

\* (frame_width, frame_height) of the two counters
ReversalFrame == <<4, 2>>

ConstructReversal ==
    /\ ~reversal.constructed
    /\ ~scenario.running
    /\ ~descent.running
    /\ DOMAIN counters = {}
    /\ failed.raised = "none"
    /\ \E line_points \in Lines, in_side \in {"left", "right"},
          crossing_criteria \in CrossingCriteria,
          roi_mask \in RoiMasks(ReversalFrame[1], ReversalFrame[2]) :
          \E c \in {[n \in Orders |->
                       LineCrossingCounter(IF n = "given" THEN line_points
                                           ELSE Reversed(line_points),
                                           in_side, ReversalFrame[1], ReversalFrame[2],
                                           crossing_criteria, roi_mask)]} :
              /\ \A n \in Orders : c[n].raised = "none"
              /\ reversal' = [constructed |-> TRUE,
                              line_points |-> line_points,
                              counters |-> [n \in Orders |-> c[n].value],
                              updated |-> FALSE,
                              ret |-> [n \in Orders |-> Returned(0)]]
    /\ UNCHANGED <<counter_vars, scenario>>
    /\ UNCHANGED <<first_seen, descent, transformer, roi_manager, tracker, app, later_vars>>

UpdateReversal ==
    /\ reversal.constructed
    /\ \E tracked_objects \in TrackedObjectLists :
          \E r \in {[n \in Orders |-> update(reversal.counters[n], tracked_objects)]} :
              /\ \A n \in Orders : Abs(r[n].self.count) <= MaxCount
              /\ reversal' = [reversal EXCEPT
                     !.counters = [n \in Orders |-> r[n].self],
                     !.updated = TRUE,
                     !.ret = [n \in Orders |-> r[n].ret]]
    /\ UNCHANGED <<counter_vars, scenario>>
    /\ UNCHANGED <<first_seen, descent, transformer, roi_manager, tracker, app, later_vars>>

Reversals == ConstructReversal \/ UpdateReversal

\* two counters with the line points in opposite orders
SpecReversal == Init /\ [][Reversals]_vars

\* the line points as given have the same y and different x
Horizontal(line_points) ==
    /\ line_points[1][2] = line_points[2][2]
    /\ line_points[1][1] # line_points[2][1]

\* the points a counter is asked about: the stored ones, the reference points
\* of the boxes and the probe points
PointsAskedOf(self) ==
    {self.tracked_positions[t] : t \in DOMAIN self.tracked_positions}
        \cup {_get_reference_point(self, bbox).value : bbox \in Boxes}
        \cup ProbePoints

\* C22 as stated: for a horizontal line, given in either endpoint order, and
\* in_side "left", a point is on the IN side iff its y is greater than the
\* line's y
C22_LeftIsBelow ==
    reversal.constructed /\ Horizontal(reversal.line_points) =>
        \A n \in Orders :
            LET self == reversal.counters[n]
            IN  self.in_side = "left" =>
                    \A point \in PointsAskedOf(self) :
                        _is_point_on_in_side(self, point)
                            <=> RPositive(RSub(point[2], self.line_points[1][2]))

----------------------------------------------------------------------------
(* The degenerate line *)

\* the two line points are the same point
Degenerate(line_points) == line_points[1] = line_points[2]

\* the points counter n is asked about
PointsAsked(n) == IF PositiveFrame(n) THEN PointsOf(n) ELSE ProbePoints

\* C23 as stated: on a counter with a degenerate line, whichever in_side it
\* has, every point is classified as not on the IN side
C23_AlwaysFalse ==
    \A n \in DOMAIN counters :
        Degenerate(counters[n].line_points) =>
            \A point \in PointsAsked(n) : ~OnInSide(n, point)

\* C23: a constructor call with a degenerate line and otherwise valid
\* arguments returns a counter; on such a counter every point is classified as
\* not on the IN side when in_side is "left" and as on the IN side when in_side
\* is "right", the count stays 0, and with a positive frame size no update call
\* raises
C23_DegenerateLine ==
    /\ [](\A n \in DOMAIN counters :
            Degenerate(counters[n].line_points) =>
                /\ \A point \in PointsAsked(n) :
                       OnInSide(n, point) <=> counters[n].in_side = "right"
                /\ counters[n].count = 0
                /\ (PositiveFrame(n) /\ n \in DOMAIN ret) =>
                       ret[n].raised = "none" /\ ret[n].value = 0)
    /\ [][DOMAIN counters = {} =>
            \A line_points \in Lines, in_side \in InSides,
               size \in FrameSizes, crossing_criteria \in CriteriaArgs :
               \A roi_mask \in RoiMasks(size[1], size[2]) :
                   (/\ Degenerate(line_points)
                    /\ ValidArgs(in_side, size[1], size[2], crossing_criteria, roi_mask)
                    /\ Construct(line_points, in_side, size[1], size[2],
                                 crossing_criteria, roi_mask)) =>
                       /\ error'.raised = "none"
                       /\ DOMAIN counters' # {}
                       /\ Degenerate(counters'["main"].line_points)]_vars

\* a counter with a degenerate line and in_side "right" has been given a track
\* twice, at different points: both points are on its IN side
C23_Witness ==
    /\ Updated
    /\ Degenerate(counters["main"].line_points)
    /\ counters["main"].in_side = "right"
    /\ ret["main"].raised = "none"
    /\ DOMAIN Positions("main") = TrackIds
    /\ Positions("main")[1] # Positions("main")[2]
    /\ \A t \in TrackIds : OnInSide("main", Positions("main")[t])

----------------------------------------------------------------------------
(* The configuration of a counter *)

\* the fields of a counter that __init__ sets from its arguments
Configuration(self) ==
    [line_points |-> self.line_points,
     in_side |-> self.in_side,
     crossing_criteria |-> self.crossing_criteria,
     frame_width |-> self.frame_width,
     frame_height |-> self.frame_height,
     roi_mask |-> self.roi_mask]

\* C24: no update call changes the configuration of a counter: its line
\* points, in_side, crossing criterion, frame width, frame height and ROI mask
\* are after the call what they were before it, whether the call returned or
\* raised; count and tracked_positions are its only other fields
C24_ConfigurationKept ==
    /\ [][DOMAIN counters # {} =>
            \A n \in DOMAIN counters :
                /\ n \in DOMAIN counters'
                /\ Configuration(counters'[n]) = Configuration(counters[n])]_vars
    /\ [](\A n \in DOMAIN counters :
            DOMAIN counters[n] = DOMAIN Configuration(counters[n])
                                     \cup {"count", "tracked_positions"})

\* update calls have changed the count and the positions of a counter with a
\* mask and a line that was given upper point last
C24_Witness ==
    /\ Updated /\ HasMask("main")
    /\ counters["main"].count # 0
    /\ DOMAIN Positions("main") = TrackIds
    /\ counters["main"].line_points = <<Quarter(1, 1), Quarter(3, 3)>>

----------------------------------------------------------------------------
(* The first and the last point of each track *)

\* the lists of at most two tracked objects with distinct track ids
DistinctLists == {l \in TrackedObjectLists : Cardinality(IdsOf(l)) = Len(l)}

\* first_seen after an update call: a track of the call that had no point gets
\* the reference point of its box, unless computing it raised
FirstSeenAfter(tracked_objects) ==
    LET new == {t \in IdsOf(tracked_objects) \ DOMAIN first_seen :
                   LET i == CHOOSE i \in DOMAIN tracked_objects :
                                tracked_objects[i].track_id = t
                   IN  _get_reference_point(counters["main"],
                                            tracked_objects[i].bbox).raised = "none"}
    IN  [t \in DOMAIN first_seen \cup new |->
            IF t \in DOMAIN first_seen THEN first_seen[t]
            ELSE LET i == CHOOSE i \in DOMAIN tracked_objects :
                              tracked_objects[i].track_id = t
                 IN  _get_reference_point(counters["main"],
                                          tracked_objects[i].bbox).value]

\* an update call whose objects have distinct track ids, the first points
\* being recorded
FirstUpdate ==
    /\ DOMAIN counters # {}
    /\ ~observed
    /\ \E tracked_objects \in DistinctLists :
          /\ Update(tracked_objects, FALSE)
          /\ first_seen' = FirstSeenAfter(tracked_objects)
    /\ UNCHANGED absent

Firsts == ConstructCounter \/ FirstUpdate

\* update calls with the first point of each track recorded
SpecFirst == Init /\ [][Firsts]_vars

\* the tracks of counter n whose point is on its IN side, among the points
\* given by the map
TracksIn(n, points) == {t \in DOMAIN points : OnInSide(n, points[t])}

\* C29: on a counter without a mask, after any update calls whose objects have
\* distinct track ids, the count is the number of seen tracks whose last
\* recorded point is on the IN side minus the number of seen tracks whose first
\* point was on the IN side; its absolute value is at most the number of seen
\* tracks
C29_CountBalance ==
    \A n \in DOMAIN counters :
        ~HasMask(n) =>
            /\ DOMAIN Positions(n) = DOMAIN first_seen
            /\ counters[n].count = Cardinality(TracksIn(n, Positions(n)))
                                       - Cardinality(TracksIn(n, first_seen))
            /\ Abs(counters[n].count) <= Cardinality(DOMAIN Positions(n))

\* track 1 was first seen on the IN side and is now on the other side; track 2
\* has moved and is on the side it was first seen on: the count is -1
C29_Witness ==
    /\ Updated /\ ~HasMask("main")
    /\ DOMAIN first_seen = TrackIds
    /\ OnInSide("main", first_seen[1]) /\ ~OnInSide("main", Positions("main")[1])
    /\ Positions("main")[2] # first_seen[2]
    /\ OnInSide("main", first_seen[2]) = OnInSide("main", Positions("main")[2])
    /\ counters["main"].count = -1

----------------------------------------------------------------------------
(* CoordinateTransformer (src/src/app/utils/coordinate_utils.py).  The window
   constructs it as CoordinateTransformer(0, 0) and sets the frame size when a
   video is loaded.  Each call of normalize_coordinates is recorded with what
   it returned and with what the counter's own normalization gives for the
   same pixel and frame size, under every crossing criterion. *)

\* the frame widths and heights
Dimensions == 0 .. 3

\* the pixel coordinates
Pixels == -1 .. 4

\* normalize_coordinates dividing unconditionally
normalize_coordinates_unguarded(self, x, y) ==
    PyPoint(PyDiv(RInt(x), self.frame_width), PyDiv(RInt(y), self.frame_height))

normalize_coordinates(self, x, y) ==
    IF self.frame_width = 0 \/ self.frame_height = 0
    THEN Returned(<<RInt(0), RInt(0)>>)
    ELSE PyPoint(PyDiv(RInt(x), self.frame_width), PyDiv(RInt(y), self.frame_height))

update_frame_size ==
    /\ ~scenario.running
    /\ ~descent.running
    /\ ~reversal.constructed
    /\ DOMAIN counters = {}
    /\ failed.raised = "none"
    /\ \E frame_width \in Dimensions, frame_height \in Dimensions :
          transformer' = CoordinateTransformer(frame_width, frame_height)
    /\ UNCHANGED <<counter_vars, scenario>>
    /\ UNCHANGED <<first_seen, reversal, descent, roi_manager, tracker, app, later_vars>>

\* a call of normalize_coordinates, and the reference points of the box
\* (x, y, x, y) on a counter with the same frame size
NormalizeCoordinates ==
    /\ ~scenario.running
    /\ ~descent.running
    /\ ~reversal.constructed
    /\ DOMAIN counters = {}
    /\ failed.raised = "none"
    /\ \E x \in Pixels, y \in Pixels :
          transformer' = [frame_width |-> transformer.frame_width,
                          frame_height |-> transformer.frame_height,
                          called |-> TRUE,
                          x |-> x,
                          y |-> y,
                          returned |-> normalize_coordinates(transformer, x, y),
                          reference |-> [c \in CrossingCriteria |->
                              _get_reference_point(
                                  [frame_width |-> transformer.frame_width,
                                   frame_height |-> transformer.frame_height,
                                   crossing_criteria |-> c],
                                  <<x, y, x, y>>)]]
    /\ UNCHANGED <<counter_vars, scenario>>
    /\ UNCHANGED <<first_seen, reversal, descent, roi_manager, tracker, app, later_vars>>

Transformations == update_frame_size \/ NormalizeCoordinates

\* calls of the CoordinateTransformer
SpecTransform == Init /\ [][Transformations]_vars

\* C26: normalize_coordinates returns (x / frame_width, y / frame_height) when
\* both frame dimensions are nonzero and (0, 0) when one of them is zero,
\* raising nothing; the counter's normalization of the same pixel gives the
\* same point when both dimensions are nonzero and raises ZeroDivisionError
\* when one of them is zero, under every crossing criterion
C26_NormalizeGuarded ==
    transformer.called =>
        IF transformer.frame_width # 0 /\ transformer.frame_height # 0
        THEN /\ transformer.returned
                    = Returned(<<Rat(transformer.x, transformer.frame_width),
                                 Rat(transformer.y, transformer.frame_height)>>)
             /\ \A c \in CrossingCriteria :
                    transformer.reference[c] = transformer.returned
        ELSE /\ transformer.returned = Returned(<<RInt(0), RInt(0)>>)
             /\ \A c \in CrossingCriteria :
                    transformer.reference[c].raised = "ZeroDivisionError"

\* normalize_coordinates was called for a pixel other than (0, 0) on a
\* transformer whose frame height is zero and whose width is not
C26_Witness ==
    /\ transformer.called
    /\ transformer.frame_width # 0 /\ transformer.frame_height = 0
    /\ transformer.x > 0 /\ transformer.y > 0
    /\ transformer.returned.raised = "none"
    /\ transformer.reference["center"].raised # "none"

----------------------------------------------------------------------------
(* ROIManager (src/src/app/core/roi_manager.py) with the CoordinateTransformer
   it converts the clicks with.  The canvas has one size; the frame size is
   whatever update_frame_size has set. *)

\* (canvas_width, canvas_height)
CanvasSize == <<30, 30>>

\* the canvas points clicked
Clicks == {<<2, 2>>, <<28, 2>>, <<28, 28>>, <<10, 5>>}

\* get_preview_dimensions: (preview_width, preview_height, x_offset, y_offset)
get_preview_dimensions(self, canvas_width, canvas_height) ==
    IF self.frame_width = 0 \/ self.frame_height = 0 THEN <<0, 0, 0, 0>>
    ELSE LET aspect_ratio == Rat(self.frame_width, self.frame_height)
             wide == ~RLe(Rat(canvas_width, canvas_height), aspect_ratio)
             preview_width == IF wide THEN PyInt(RMul(RInt(canvas_height), aspect_ratio))
                              ELSE canvas_width
             preview_height == IF wide THEN canvas_height
                               ELSE PyInt(Rat(canvas_width * aspect_ratio[2], aspect_ratio[1]))
         IN  <<preview_width, preview_height,
               (canvas_width - preview_width) \div 2,
               (canvas_height - preview_height) \div 2>>

canvas_to_frame(self, canvas_x, canvas_y, canvas_width, canvas_height) ==
    LET preview == get_preview_dimensions(self, canvas_width, canvas_height)
    IN  IF preview[1] = 0 \/ preview[2] = 0 THEN <<0, 0>>
        ELSE LET frame_x == PyInt(Rat((canvas_x - preview[3]) * self.frame_width, preview[1]))
                 frame_y == PyInt(Rat((canvas_y - preview[4]) * self.frame_height, preview[2]))
             IN  <<Max(0, Min(frame_x, self.frame_width - 1)),
                   Max(0, Min(frame_y, self.frame_height - 1))>>

frame_to_canvas(self, frame_x, frame_y, canvas_width, canvas_height) ==
    LET preview == get_preview_dimensions(self, canvas_width, canvas_height)
    IN  IF preview[1] = 0 \/ preview[2] = 0 THEN <<0, 0>>
        ELSE <<PyInt(Rat(frame_x * preview[1] + preview[3] * self.frame_width,
                         self.frame_width)),
               PyInt(Rat(frame_y * preview[2] + preview[4] * self.frame_height,
                         self.frame_height))>>

start_drawing(self) ==
    [self EXCEPT !.is_drawing = TRUE, !.is_complete = FALSE, !.roi_points = <<>>]

\* finish_drawing without the test of the number of points
finish_drawing_unchecked(self) ==
    [self EXCEPT !.is_drawing = FALSE, !.is_complete = TRUE]

finish_drawing(self) ==
    IF Len(self.roi_points) >= 3
    THEN [self EXCEPT !.is_drawing = FALSE, !.is_complete = TRUE]
    ELSE self

\* add_point appending the point whatever the manager is doing
add_point_always(self, coord_transformer, canvas_x, canvas_y, canvas_width, canvas_height) ==
    [self |-> [self EXCEPT !.roi_points =
                   Append(@, canvas_to_frame(coord_transformer, canvas_x, canvas_y,
                                             canvas_width, canvas_height))],
     ret |-> FALSE]

\* add_point: the manager after the call and what the call returned
add_point(self, coord_transformer, canvas_x, canvas_y, canvas_width, canvas_height) ==
    IF ~self.is_drawing THEN [self |-> self, ret |-> FALSE]
    ELSE LET frame == canvas_to_frame(coord_transformer, canvas_x, canvas_y,
                                      canvas_width, canvas_height)
             first_point_canvas ==
                 frame_to_canvas(coord_transformer, self.roi_points[1][1],
                                 self.roi_points[1][2], canvas_width, canvas_height)
             dx == canvas_x - first_point_canvas[1]
             dy == canvas_y - first_point_canvas[2]
         IN  IF Len(self.roi_points) >= 3 /\ dx * dx + dy * dy < 15 * 15
             THEN [self |-> finish_drawing(self), ret |-> TRUE]
             ELSE [self |-> [self EXCEPT !.roi_points = Append(@, frame)], ret |-> FALSE]

cancel_drawing(self) ==
    [self EXCEPT !.is_drawing = FALSE, !.is_complete = FALSE, !.roi_points = <<>>]

\* remove_last_point without the test of is_drawing
remove_last_point_always(self) ==
    IF self.roi_points # <<>>
    THEN [self EXCEPT !.roi_points = SubSeq(@, 1, Len(@) - 1)]
    ELSE self

remove_last_point(self) ==
    IF self.roi_points # <<>> /\ self.is_drawing
    THEN [self EXCEPT !.roi_points = SubSeq(@, 1, Len(@) - 1)]
    ELSE self

has_roi(self) == Len(self.roi_points) >= 3

\* ROIManager.reset
reset(self) ==
    [self EXCEPT !.roi_points = <<>>, !.is_drawing = FALSE, !.is_complete = FALSE]

\* a call of one of the methods of the ROIManager
RoiCall(after) ==
    /\ ~scenario.running
    /\ ~descent.running
    /\ ~reversal.constructed
    /\ DOMAIN counters = {}
    /\ failed.raised = "none"
    /\ Len(after.roi_points) <= MaxRoiPoints
    /\ roi_manager' = after
    /\ UNCHANGED <<counter_vars, scenario>>
    /\ UNCHANGED <<first_seen, reversal, descent, transformer, tracker, app, later_vars>>

StartDrawing == RoiCall(start_drawing(roi_manager))

AddPoint ==
    \E click \in Clicks :
        RoiCall(add_point(roi_manager, transformer, click[1], click[2],
                          CanvasSize[1], CanvasSize[2]).self)

FinishDrawing == RoiCall(finish_drawing(roi_manager))

CancelDrawing == RoiCall(cancel_drawing(roi_manager))

RemoveLastPoint == RoiCall(remove_last_point(roi_manager))

ResetRoi == RoiCall(reset(roi_manager))

RoiCalls ==
    \/ update_frame_size
    \/ StartDrawing
    \/ AddPoint
    \/ FinishDrawing
    \/ CancelDrawing
    \/ RemoveLastPoint
    \/ ResetRoi

\* calls of the ROIManager
SpecRoi == Init /\ [][RoiCalls]_vars

----------------------------------------------------------------------------
(* PersonTracker and ByteTrack (src/src/tracker).  The tracker underneath,
   BYTETracker, answers a call of its update with any list of targets. *)

\* the detections of a frame: confidence in tenths
Detections == {[bbox |-> <<0, 0, 2, 2>>, confidence |-> 9],
               [bbox |-> <<3, 1, 1, 0>>, confidence |-> 3]}

\* the detection lists given to update
DetectionLists ==
    {<<>>} \cup {<<a>> : a \in Detections}
           \cup {<<a, b>> : a \in Detections, b \in Detections}

\* the lists of targets BYTETracker.update answers with
OnlineTargets == {<<>>} \cup {<<[track_id |-> t, bbox |-> b]>> : t \in TrackIds, b \in Boxes}

\* BYTETracker.update: the tracker underneath after it received dets
BYTETracker_update(self, dets) == [self EXCEPT !.received = Append(@, dets)]

\* ByteTrack.update passing every frame to the tracker underneath
ByteTrack_update_unguarded(self, detections, online_targets) ==
    LET dets == [i \in DOMAIN detections |->
                    <<detections[i].bbox[1], detections[i].bbox[2],
                      detections[i].bbox[3], detections[i].bbox[4],
                      detections[i].confidence>>]
    IN  [self |-> [self EXCEPT !.tracker = BYTETracker_update(@, dets)],
         ret |-> online_targets]

\* ByteTrack.update: the ByteTrack after the call and the list it returned,
\* online_targets being the answer of the tracker underneath if it is called
ByteTrack_update(self, detections, online_targets) ==
    IF detections = <<>> THEN [self |-> self, ret |-> <<>>]
    ELSE LET dets == [i \in DOMAIN detections |->
                         <<detections[i].bbox[1], detections[i].bbox[2],
                           detections[i].bbox[3], detections[i].bbox[4],
                           detections[i].confidence>>]
         IN  [self |-> [self EXCEPT !.tracker = BYTETracker_update(@, dets)],
              ret |-> online_targets]

\* PersonTracker.update
PersonTracker_update(self, detections, online_targets) ==
    LET r == ByteTrack_update(self.tracker, detections, online_targets)
    IN  [self |-> [self EXCEPT !.tracker = r.self], ret |-> r.ret]

\* a call of PersonTracker.update; the call is recorded with its argument,
\* what it returned and the ByteTrack it found
TrackerUpdate ==
    /\ ~scenario.running
    /\ ~descent.running
    /\ ~reversal.constructed
    /\ DOMAIN counters = {}
    /\ failed.raised = "none"
    /\ Len(tracker.tracker.tracker.received) < MaxFrames
    /\ \E detections \in DetectionLists, online_targets \in OnlineTargets :
          \E r \in {PersonTracker_update(tracker, detections, online_targets)} :
              tracker' = [tracker |-> r.self.tracker,
                          called |-> TRUE,
                          detections |-> detections,
                          ret |-> r.ret,
                          before |-> tracker.tracker]
    /\ UNCHANGED <<counter_vars, scenario>>
    /\ UNCHANGED <<first_seen, reversal, descent, transformer, roi_manager, app, later_vars>>

\* calls of the tracker
SpecTracker == Init /\ [][TrackerUpdate]_vars

\* C28: an update call with an empty detection list returns an empty list and
\* leaves the ByteTrack and the tracker underneath as they were: the frame is
\* not passed on
C28_EmptyDetections ==
    tracker.called /\ tracker.detections = <<>> =>
        /\ tracker.ret = <<>>
        /\ tracker.tracker = tracker.before
        /\ tracker.tracker.tracker.received = tracker.before.tracker.received

\* update was called with no detections on a tracker whose tracker underneath
\* had received two frames
C28_Witness ==
    /\ tracker.called /\ tracker.detections = <<>>
    /\ Len(tracker.before.tracker.received) = 2
    /\ Len(tracker.tracker.tracker.received) = 2

----------------------------------------------------------------------------
(* PeopleCounterApp (src/src/app/ui/main_window.py) with its VideoProcessor
   (src/src/app/core/video_processor.py), LineManager, ROIManager, video
   display and controls.  An action is a handler the user or the timer can
   start: a button is clicked only while it and its group are enabled, the
   timer fires only while it is active.  The detector and the tracker answer
   each frame with any of a few lists of tracked objects. *)

\* the points of a polygon
MaxPolygon == 3

\* the files the user selects: whether cv2 opens it, its frame size and the
\* number of frames it holds
Videos ==
    {[opened |-> TRUE, frame_width |-> 4, frame_height |-> 2, frames |-> 2],
     [opened |-> FALSE, frame_width |-> 0, frame_height |-> 0, frames |-> 0]}

\* the canvas points the mouse is pressed and released at to draw the line
MouseClicks == {<<2, 2>>, <<28, 28>>}

\* the canvas points the mouse is pressed at to draw the polygon
PolygonClicks == {<<10, 5>>}

\* what the tracker returns for a frame
FrameObjects ==
    {<<>>} \cup {<<[track_id |-> 1, bbox |-> b]>> : b \in {<<0, 0, 2, 2>>, <<3, 1, 1, 0>>}}

\* what create_roi_mask returns when the manager has a polygon: a mask of the
\* frame's shape, filled by cv2.fillPoly
PolygonMasks(frame_width, frame_height) ==
    {MaskOf(frame_height, frame_width,
            {rc \in (0 .. frame_height - 1) \X (0 .. frame_width - 1) : rc[2] \in {1, 2}},
            255)}

\* reset_processing_state leaving frame_history as it is
reset_processing_state_keeping_frames(self) ==
    [self EXCEPT !.current_frame_number = 0, !.count = 0, !.count_history = <<>>,
                 !.is_running = FALSE]

\* VideoProcessor.reset_processing_state
reset_processing_state(self) ==
    [self EXCEPT !.current_frame_number = 0, !.count = 0, !.count_history = <<>>,
                 !.frame_history = <<>>, !.is_running = FALSE]

\* VideoProcessor.load_video: the processor after the call and what it returned
load_video(self, video) ==
    LET opening == [self EXCEPT !.cap = [opened |-> video.opened, frames |-> video.frames]]
    IN  IF ~video.opened THEN [self |-> opening, ret |-> FALSE]
        ELSE [self |-> reset_processing_state(
                           [opening EXCEPT !.frame_width = video.frame_width,
                                           !.frame_height = video.frame_height]),
              ret |-> TRUE]

\* VideoProcessor.get_first_frame: is there one
get_first_frame(self) == self.cap.opened /\ self.cap.frames > 0

\* setup_counter keeping a counter the processor already has
setup_counter_once(self, line_points, in_side) ==
    LET c == LineCrossingCounter(line_points, in_side, self.frame_width,
                                 self.frame_height, "center", NoMask)
    IN  IF c.raised # "none" \/ self.counter # <<>> THEN [self |-> self, raised |-> c.raised]
        ELSE [self |-> [self EXCEPT !.counter = <<c.value>>, !.constructed = TRUE],
              raised |-> "none"]

\* VideoProcessor.setup_counter: the processor after the call, or the
\* exception the constructor raised (line_crossing_config is empty)
setup_counter(self, line_points, in_side) ==
    LET c == LineCrossingCounter(line_points, in_side, self.frame_width,
                                 self.frame_height, "center", NoMask)
    IN  IF c.raised # "none" THEN [self |-> self, raised |-> c.raised]
        ELSE [self |-> [self EXCEPT !.counter = <<c.value>>, !.constructed = TRUE],
              raised |-> "none"]

\* VideoProcessor.setup_counter_with_roi; the mask create_roi_mask made has
\* the shape of the frame, so that it is not resized
setup_counter_with_roi(self, line_points, in_side, roi_mask) ==
    LET c == LineCrossingCounter(line_points, in_side, self.frame_width,
                                 self.frame_height, "center", roi_mask)
    IN  IF c.raised # "none" THEN [self |-> self, raised |-> c.raised]
        ELSE [self |-> [self EXCEPT !.counter = <<c.value>>, !.constructed = TRUE],
              raised |-> "none"]

\* VideoProcessor.start_processing
VideoProcessor_start_processing(self) ==
    IF ~self.cap.opened THEN [self |-> self, ret |-> FALSE]
    ELSE [self |-> [self EXCEPT !.is_running = TRUE], ret |-> TRUE]

\* VideoProcessor.stop_processing
stop_processing(self) == [self EXCEPT !.is_running = FALSE]

\* the guard of process_next_frame without is_running
can_process_stopped(self) == self.cap.opened

\* the guard of VideoProcessor.process_next_frame: the video is open and the
\* processor is running
can_process(self) == self.cap.opened /\ self.is_running

\* the end of the video leaving the processor running
video_ended_running(self) == self

\* VideoProcessor.process_next_frame when cap.read() has no frame, before it
\* calls complete_callback
video_ended(self) == [self EXCEPT !.is_running = FALSE]

\* VideoProcessor.process_next_frame, the tracker answering tracked_objects:
\* the processor after the call, whether it returned a frame, whether it
\* called complete_callback and count_callback, the exception it raised, the
\* callbacks it called in their order with their arguments, and what
\* counter.update returned to it (the empty list when it was not called)
process_next_frame(self, tracked_objects) ==
    LET none == [self |-> self, frame |-> FALSE, completed |-> FALSE,
                 counted |-> FALSE, raised |-> "none", callbacks |-> <<>>,
                 updated |-> <<>>]
        read == [self EXCEPT !.cap.frames = @ - 1]
        frame_callback == [name |-> "frame_callback", args |-> <<>>]
    IN  IF ~can_process(self) THEN none
        ELSE IF self.cap.frames = 0
        THEN [none EXCEPT !.self = video_ended(self), !.completed = TRUE,
                          !.callbacks = <<[name |-> "complete_callback",
                                           args |-> <<self.count_history,
                                                      self.frame_history>>]>>]
        ELSE IF self.counter = <<>>
        THEN [none EXCEPT !.self = [read EXCEPT !.current_frame_number = @ + 1],
                          !.frame = TRUE,
                          !.callbacks = <<frame_callback>>]
        ELSE CHOOSE result \in
                 {IF r.ret.raised # "none"
                  THEN [none EXCEPT !.self = [read EXCEPT !.counter = <<r.self>>],
                                    !.raised = r.ret.raised]
                  ELSE [none EXCEPT
                           !.self = [read EXCEPT !.counter = <<r.self>>,
                                                 !.count = r.ret.value,
                                                 !.count_history = Append(@, r.ret.value),
                                                 !.frame_history =
                                                     Append(@, self.current_frame_number),
                                                 !.current_frame_number = @ + 1],
                           !.frame = TRUE,
                           !.counted = TRUE,
                           !.callbacks = <<[name |-> "count_callback",
                                            args |-> <<r.ret.value,
                                                       self.current_frame_number>>],
                                           frame_callback>>,
                           !.updated = <<r.ret.value>>] :
                  r \in {update(self.counter[1], tracked_objects)}} : TRUE

\* LineManager.has_line
has_line(self) == self.line_start # <<>> /\ self.line_end # <<>>

\* LineManager.get_normalized_line of a manager that has a line
get_normalized_line(self, coord_transformer) ==
    <<normalize_coordinates(coord_transformer, self.line_start[1], self.line_start[2]).value,
      normalize_coordinates(coord_transformer, self.line_end[1], self.line_end[2]).value>>

\* PeopleCounterApp.on_video_completed
on_video_completed(self) ==
    [self EXCEPT
        !.is_processing = FALSE,
        !.processing_timer = FALSE,
        !.video_display.processing_active = FALSE,
        !.controls.draw_line_btn = @ \/ self.line_drawn,
        !.controls.side_group = @ \/ self.side_selected,
        !.controls.roi_group = @ \/ (self.line_drawn /\ self.side_selected),
        !.controls.draw_roi_btn = @ \/ (self.line_drawn /\ self.side_selected),
        !.controls.cancel_roi_btn = @ \/ (self.line_drawn /\ self.side_selected),
        !.controls.skip_roi_btn = @ \/ (self.line_drawn /\ self.side_selected)]

\* PeopleCounterApp.start_video_processing
start_video_processing(self) ==
    LET started == VideoProcessor_start_processing(self.video_processor)
    IN  IF ~started.ret THEN self
        ELSE [self EXCEPT !.video_processor = started.self,
                          !.processing_timer = TRUE,
                          !.is_processing = TRUE]

\* PeopleCounterApp.start_processing with the mask create_roi_mask would
\* return; an exception of the constructor ends the handler
start_processing(self, roi_mask) ==
    LET active == [self EXCEPT !.video_display.processing_active = TRUE]
        normalized_line == get_normalized_line(self.line_manager, self.coord_transformer)
        processor == [self.video_processor EXCEPT !.constructed = FALSE]
        set == IF has_roi(self.roi_manager)
               THEN setup_counter_with_roi(processor, normalized_line,
                                           self.selected_side, roi_mask)
               ELSE setup_counter(processor, normalized_line, self.selected_side)
    IN  IF ~self.line_drawn \/ ~self.side_selected THEN self
        ELSE IF ~has_line(self.line_manager) THEN active
        ELSE IF set.raised # "none" THEN active
        ELSE start_video_processing(
                 [active EXCEPT
                     !.video_processor = set.self,
                     !.counter_current = @ \/ set.self.constructed,
                     !.discarded =
                         IF self.video_processor.counter = <<>> THEN <<>>
                         ELSE <<[count |-> self.video_processor.counter[1].count,
                                 tracks |-> DOMAIN self.video_processor.counter[1].tracked_positions]>>,
                     !.controls.draw_line_btn = FALSE,
                     !.controls.side_group = FALSE,
                     !.controls.roi_group = FALSE])

\* the handlers change nothing but the application
Handler(after) ==
    /\ app' = after
    /\ UNCHANGED <<counter_vars, scenario>>
    /\ UNCHANGED <<first_seen, reversal, descent, transformer, roi_manager, tracker>>
    /\ UNCHANGED later_vars

\* on_video_selected: a file the processor cannot open changes the capture only
on_video_selected ==
    /\ \E video \in Videos :
          LET loaded == load_video(app.video_processor, video)
          IN  IF ~loaded.ret THEN Handler([app EXCEPT !.video_processor = loaded.self])
              ELSE Handler(
                  [app EXCEPT
                      !.video_processor = loaded.self,
                      !.is_processing = FALSE,
                      !.processing_timer = FALSE,
                      !.coord_transformer.frame_width = video.frame_width,
                      !.coord_transformer.frame_height = video.frame_height,
                      !.line_manager = LineManager,
                      !.roi_manager = reset(@),
                      !.line_drawn = FALSE,
                      !.side_selected = FALSE,
                      !.selected_side = "None",
                      !.video_display.drawing_mode = "line",
                      !.video_display.processing_active = FALSE,
                      !.controls.draw_line_btn = get_first_frame(loaded.self),
                      !.controls.side_group = FALSE,
                      !.controls.roi_group = FALSE,
                      !.controls.draw_roi_btn = TRUE,
                      !.controls.skip_roi_btn = TRUE,
                      !.controls.cancel_roi_visible = FALSE,
                      !.controls.confirm_btn = FALSE,
                      !.counter_current = FALSE,
                      !.counted = FALSE])

on_draw_line_clicked ==
    /\ app.controls.draw_line_btn
    /\ Handler([app EXCEPT
                   !.line_manager = [LineManager EXCEPT !.drawing_line = TRUE],
                   !.roi_manager = reset(@),
                   !.line_drawn = FALSE,
                   !.side_selected = FALSE,
                   !.selected_side = "None",
                   !.controls.side_group = FALSE,
                   !.controls.roi_group = FALSE,
                   !.controls.confirm_btn = FALSE,
                   !.counter_current = FALSE,
                   !.counted = FALSE])

\* VideoDisplayWidget._on_mouse_press with the left button: the start of the
\* line, or a point of the polygon with on_roi_point_added and, when the
\* polygon was closed, on_roi_drawing_finished
_on_mouse_press ==
    /\ ~app.video_display.processing_active
    /\ IF app.video_display.drawing_mode = "line" /\ app.line_manager.drawing_line
       THEN \E click \in MouseClicks :
               LET frame == canvas_to_frame(app.coord_transformer, click[1], click[2],
                                            CanvasSize[1], CanvasSize[2])
               IN  Handler([app EXCEPT !.video_display.is_drawing = TRUE,
                                       !.line_manager.line_start = frame,
                                       !.line_manager.line_end = frame])
       ELSE /\ app.video_display.drawing_mode = "roi"
            /\ app.roi_manager.is_drawing
            /\ \E click \in PolygonClicks :
                  LET point == add_point(app.roi_manager, app.coord_transformer,
                                         click[1], click[2], CanvasSize[1], CanvasSize[2])
                      added == point.self
                      closed == point.ret
                  IN  /\ Len(added.roi_points) <= MaxPolygon
                      /\ Handler([app EXCEPT
                             !.roi_manager = added,
                             !.controls.confirm_btn = @ \/ has_roi(added),
                             !.controls.draw_roi_btn = @ /\ ~(closed /\ has_roi(added)),
                             !.controls.cancel_roi_btn = @ /\ ~(closed /\ has_roi(added))])

\* VideoDisplayWidget._on_mouse_release with the left button: finish_line and
\* on_line_drawing_finished
_on_mouse_release ==
    /\ ~app.video_display.processing_active
    /\ app.video_display.drawing_mode = "line"
    /\ app.video_display.is_drawing
    /\ \E click \in MouseClicks :
          LET frame == canvas_to_frame(app.coord_transformer, click[1], click[2],
                                       CanvasSize[1], CanvasSize[2])
              finished == [app.line_manager EXCEPT
                              !.line_end = IF app.line_manager.line_start # <<>>
                                           THEN frame ELSE @,
                              !.drawing_line = FALSE]
          IN  Handler([app EXCEPT
                  !.video_display.is_drawing = FALSE,
                  !.line_manager = finished,
                  !.line_drawn = @ \/ has_line(finished),
                  !.controls.side_group = @ \/ has_line(finished),
                  !.controls.draw_line_btn = @ \/ has_line(finished)])

on_side_selected ==
    /\ app.controls.side_group
    /\ \E side \in {"left", "right"} :
          Handler([app EXCEPT
              !.line_manager.selected_side = side,
              !.side_selected = TRUE,
              !.selected_side = side,
              !.controls.roi_group = TRUE,
              !.controls.draw_roi_btn = TRUE,
              !.controls.cancel_roi_btn = TRUE,
              !.controls.skip_roi_btn = TRUE,
              !.controls.draw_line_btn = TRUE,
              !.controls.side_group = TRUE])

\* ControlsWidget._on_draw_roi with on_draw_roi_clicked
on_draw_roi_clicked ==
    /\ app.controls.roi_group /\ app.controls.draw_roi_btn
    /\ Handler([app EXCEPT
           !.video_display.drawing_mode = "roi",
           !.roi_manager = start_drawing(@),
           !.controls.draw_roi_btn = FALSE,
           !.controls.skip_roi_btn = FALSE,
           !.controls.cancel_roi_visible = TRUE,
           !.controls.confirm_btn = FALSE])

\* ControlsWidget._on_cancel_roi with on_cancel_roi_clicked
on_cancel_roi_clicked ==
    /\ app.controls.roi_group
    /\ app.controls.cancel_roi_btn /\ app.controls.cancel_roi_visible
    /\ Handler([app EXCEPT
           !.roi_manager = cancel_drawing(@),
           !.video_display.drawing_mode = "line",
           !.controls.confirm_btn = FALSE,
           !.controls.draw_roi_btn = TRUE,
           !.controls.skip_roi_btn = TRUE,
           !.controls.cancel_roi_visible = FALSE])

on_skip_roi_clicked ==
    /\ app.controls.roi_group /\ app.controls.skip_roi_btn
    /\ Handler([app EXCEPT !.controls.confirm_btn = TRUE])

\* on_confirm_clicked: start_processing
on_confirm_clicked ==
    /\ app.controls.roi_group /\ app.controls.confirm_btn
    /\ \E roi_mask \in PolygonMasks(app.video_processor.frame_width,
                                     app.video_processor.frame_height) :
          \E after \in {start_processing(app, roi_mask)} : Handler(after)

\* process_video_frame, started by the timer: an exception of the counter's
\* update ends the handler
process_video_frame ==
    /\ app.processing_timer
    /\ IF ~app.is_processing THEN Handler([app EXCEPT !.processing_timer = FALSE])
       ELSE \E tracked_objects \in FrameObjects :
              \E next \in {process_next_frame(app.video_processor, tracked_objects)} :
                  LET read == [app EXCEPT !.video_processor = next.self]
                      completed == IF next.completed THEN on_video_completed(read) ELSE read
                      told == [completed EXCEPT !.counted = @ \/ next.counted]
                  IN  IF next.raised # "none" THEN Handler(read)
                      ELSE IF next.frame THEN Handler(told)
                      ELSE Handler([told EXCEPT !.is_processing = FALSE,
                                                !.processing_timer = FALSE])

Handlers ==
    \/ on_video_selected
    \/ on_draw_line_clicked
    \/ _on_mouse_press
    \/ _on_mouse_release
    \/ on_side_selected
    \/ on_draw_roi_clicked
    \/ on_cancel_roi_clicked
    \/ on_skip_roi_clicked
    \/ on_confirm_clicked
    \/ process_video_frame

\* the application from its start
SpecApp == Init /\ [][Handlers]_vars

\* a step in which count_callback was called: the history of counts has
\* one more entry
Reported == Len(app'.video_processor.count_history) > Len(app.video_processor.count_history)

----------------------------------------------------------------------------
(* Tracks that are not in a call *)

\* C31: an update call leaves the stored position of every track that is not
\* in its list as it was, whether it returns or raises; a call with the empty
\* list leaves the whole counter as it was and returns its count
C31_AbsentTracksKept ==
    \A n \in DOMAIN counters :
        observed =>
            /\ \A t \in DOMAIN prev[n].tracked_positions \ IdsOf(last_objs) :
                  /\ t \in DOMAIN Positions(n)
                  /\ Positions(n)[t] = prev[n].tracked_positions[t]
            /\ last_objs = <<>> =>
                  /\ counters[n] = prev[n]
                  /\ ret[n] = Returned(prev[n].count)

\* a call with the empty list on a counter that had counted and held the
\* positions of both tracks
C31_Witness ==
    /\ observed /\ last_objs = <<>>
    /\ prev["main"].count # 0
    /\ DOMAIN prev["main"].tracked_positions = {1, 2}
    /\ ret["main"] = Returned(prev["main"].count)

----------------------------------------------------------------------------
(* Counting on a degenerate line *)

\* C32: a counter whose line is degenerate, with either in_side and with or
\* without a mask, never counts: its count is 0 before and after every update
\* call, and every call that returns returns 0
C32_DegenerateNeverCounts ==
    \A n \in DOMAIN counters :
        Degenerate(counters[n].line_points) =>
            /\ counters[n].count = 0
            /\ n \in DOMAIN prev => prev[n].count = 0
            /\ (n \in DOMAIN ret /\ ret[n].raised = "none") => ret[n].value = 0

\* counters with a degenerate line, in_side "left" and "right", one of them
\* with a mask that is nonzero everywhere, were given both tracks and then
\* track 1 again at another point inside the frame: the count is still 0
C32_Witness ==
    /\ Returns("main") /\ Returns("flip") /\ Returns("full")
    /\ Degenerate(counters["main"].line_points)
    /\ PositiveFrame("main")
    /\ Len(last_objs) = 1 /\ TrackOf(1) = 1
    /\ DOMAIN prev["main"].tracked_positions = TrackIds
    /\ prev["main"].tracked_positions[1] # Positions("main")[1]
    /\ counters["main"].count = 0 /\ counters["flip"].count = 0
    /\ counters["full"].count = 0

----------------------------------------------------------------------------
(* The side the display highlights (LineManager.create_side_mask,
   src/src/app/core/line_manager.py) against the side the counter counts.  A
   line is drawn between two pixels of a frame; a side mask is made for it,
   and a counter is constructed from the normalized line as
   PeopleCounterApp.start_processing does. *)

\* (frame_width, frame_height) of the videos
PreviewFrames == {<<4, 2>>, <<3, 3>>, <<2, 4>>}

\* the pixels (x, y) of a frame
PixelsOf(frame_width, frame_height) == (0 .. frame_width - 1) \X (0 .. frame_height - 1)

\* create_side_mask without the exchange of the line's points
create_side_mask_unsorted(self, side, frame_width, frame_height) ==
    IF ~has_line(self)
    THEN [self |-> self, mask |-> MaskOf(frame_height, frame_width, {}, 255)]
    ELSE LET p1x == self.line_start[1]
             p1y == self.line_start[2]
             p2x == self.line_end[1]
             p2y == self.line_end[2]
             val_matrix == [rc \in (0 .. frame_height - 1) \X (0 .. frame_width - 1) |->
                               (p2x - p1x) * (rc[1] - p1y) - (p2y - p1y) * (rc[2] - p1x)]
         IN  [self |-> self,
              mask |-> MaskOf(frame_height, frame_width,
                              {rc \in DOMAIN val_matrix :
                                  \/ side = "left" /\ val_matrix[rc] > 0
                                  \/ side = "right" /\ val_matrix[rc] < 0},
                              255)]

\* create_side_mask: the manager after the call (the points of its line may
\* have been exchanged) and the mask returned; cells are (row, column)
create_side_mask(self, side, frame_width, frame_height) ==
    IF ~has_line(self)
    THEN [self |-> self, mask |-> MaskOf(frame_height, frame_width, {}, 255)]
    ELSE LET swap == self.line_start[2] > self.line_end[2]
             sorted == IF swap
                       THEN [self EXCEPT !.line_start = self.line_end,
                                         !.line_end = self.line_start]
                       ELSE self
             p1x == sorted.line_start[1]
             p1y == sorted.line_start[2]
             p2x == sorted.line_end[1]
             p2y == sorted.line_end[2]
             val_matrix == [rc \in (0 .. frame_height - 1) \X (0 .. frame_width - 1) |->
                               (p2x - p1x) * (rc[1] - p1y) - (p2y - p1y) * (rc[2] - p1x)]
         IN  [self |-> sorted,
              mask |-> MaskOf(frame_height, frame_width,
                              {rc \in DOMAIN val_matrix :
                                  \/ side = "left" /\ val_matrix[rc] > 0
                                  \/ side = "right" /\ val_matrix[rc] < 0},
                              255)]

\* the other variables of a step of the line manager
LineCall ==
    /\ UNCHANGED <<counter_vars, scenario>>
    /\ UNCHANGED <<first_seen, reversal, descent, transformer, roi_manager, tracker, app>>
    /\ UNCHANGED <<roi_call, video_processor>>

\* a line is drawn from one pixel of a frame to another
DrawLine ==
    /\ \E frame \in PreviewFrames :
          \E from \in PixelsOf(frame[1], frame[2]), to \in PixelsOf(frame[1], frame[2]) :
              line_manager' = [manager |-> [LineManager EXCEPT !.line_start = from,
                                                               !.line_end = to],
                               frame |-> frame,
                               called |-> FALSE]
    /\ LineCall

\* create_side_mask is called for a side, as VideoDisplayWidget.preview_side
\* does, and a counter is constructed from the line the manager had before
\* the call and from the line it has after it
CreateSideMask ==
    /\ "frame" \in DOMAIN line_manager
    /\ \E side \in {"left", "right"} :
          \E made \in {create_side_mask(line_manager.manager, side,
                                        line_manager.frame[1], line_manager.frame[2])} :
              line_manager' =
                  [manager |-> made.self,
                   frame |-> line_manager.frame,
                   called |-> TRUE,
                   side |-> side,
                   mask |-> made.mask,
                   counter |->
                       [m \in {"before", "after"} |->
                           LineCrossingCounter(
                               get_normalized_line(
                                   IF m = "before" THEN line_manager.manager ELSE made.self,
                                   CoordinateTransformer(line_manager.frame[1],
                                                         line_manager.frame[2])),
                               side, line_manager.frame[1], line_manager.frame[2],
                               "center", NoMask).value]]
    /\ LineCall

Previews == DrawLine \/ CreateSideMask

\* lines and their side masks
SpecSide == Init /\ [][Previews]_vars

\* the normalized coordinates of a pixel of the frame of the line manager
NormalizedPixel(pixel) ==
    normalize_coordinates(CoordinateTransformer(line_manager.frame[1], line_manager.frame[2]),
                          pixel[1], pixel[2]).value

\* the pixel is marked in the side mask
Marked(pixel) == line_manager.mask.cells[<<pixel[2], pixel[1]>>] # 0

\* C33 as stated: a pixel is marked in the mask of a side iff the counter with
\* that in_side classifies it as on the IN side
C33_MaskIsInSide ==
    line_manager.called =>
        \A m \in {"before", "after"} :
            \A pixel \in PixelsOf(line_manager.frame[1], line_manager.frame[2]) :
                Marked(pixel) <=>
                    _is_point_on_in_side(line_manager.counter[m], NormalizedPixel(pixel))

\* C33: a pixel that is not on the line is marked in the mask of a side iff
\* the counter with that in_side classifies it as on the IN side, also in a
\* frame that is not square; a pixel exactly on the line is marked for neither
\* side, while the counter classifies it as on the IN side iff in_side is "right"
C33_MaskIsStrictSide ==
    line_manager.called =>
        \A m \in {"before", "after"} :
            \A pixel \in PixelsOf(line_manager.frame[1], line_manager.frame[2]) :
                LET point == NormalizedPixel(pixel)
                    is_in == _is_point_on_in_side(line_manager.counter[m], point)
                IN  IF RZero(cross_product(line_manager.counter[m], point))
                    THEN ~Marked(pixel) /\ (is_in <=> line_manager.side = "right")
                    ELSE Marked(pixel) <=> is_in

\* the mask for the right side of a line drawn upwards in a frame that is not
\* square: some pixels are marked, and a pixel on the line that is not one of
\* its ends is not
C33_Witness ==
    /\ line_manager.called
    /\ line_manager.side = "right"
    /\ line_manager.frame[1] # line_manager.frame[2]
    /\ line_manager.manager.line_start # line_manager.manager.line_end
    /\ line_manager.counter["before"].line_points[1][2]
           # line_manager.counter["before"].line_points[2][2]
    /\ \E pixel \in PixelsOf(line_manager.frame[1], line_manager.frame[2]) : Marked(pixel)
    /\ \E pixel \in PixelsOf(line_manager.frame[1], line_manager.frame[2]) :
          /\ pixel \notin {line_manager.manager.line_start, line_manager.manager.line_end}
          /\ RZero(cross_product(line_manager.counter["after"], NormalizedPixel(pixel)))
          /\ ~Marked(pixel)
          /\ _is_point_on_in_side(line_manager.counter["after"], NormalizedPixel(pixel))

----------------------------------------------------------------------------
(* The calls of the ROIManager with what they return.  Each call is recorded
   with the manager it found, the frame size of its CoordinateTransformer,
   the click it was given and what it returned ("None" for the methods that
   return nothing). *)

\* the canvas points clicked; the last one is 15 pixels away from the canvas
\* point (0, 0)
ClosingClicks == {<<2, 2>>, <<28, 28>>, <<10, 5>>, <<9, 12>>}

\* the frame sizes the transformer is given; (0, 0) is what it starts with
ClosingFrames == {<<4, 2>>, <<3, 3>>, <<0, 0>>}

\* the other variables of a step of the ROIManager
RecordedStep ==
    /\ UNCHANGED <<counter_vars, scenario>>
    /\ UNCHANGED <<first_seen, reversal, descent, tracker, app>>
    /\ UNCHANGED <<line_manager, video_processor>>

\* CoordinateTransformer.update_frame_size, as on_video_selected calls it
LoadFrame ==
    /\ \E frame \in ClosingFrames : transformer' = CoordinateTransformer(frame[1], frame[2])
    /\ UNCHANGED <<roi_manager, roi_call>>
    /\ RecordedStep

\* a call of a method: result is the manager after it and what it returned
RecordedCall(method, click, result) ==
    /\ Len(result.self.roi_points) <= MaxRoiPoints
    /\ roi_manager' = result.self
    /\ roi_call' = [called |-> TRUE, method |-> method, click |-> click,
                    before |-> roi_manager,
                    frame |-> <<transformer.frame_width, transformer.frame_height>>,
                    ret |-> result.ret]
    /\ UNCHANGED transformer
    /\ RecordedStep

RecordedAddPoint ==
    \E click \in ClosingClicks :
        \E result \in {add_point(roi_manager, transformer, click[1], click[2],
                                 CanvasSize[1], CanvasSize[2])} :
            RecordedCall("add_point", click, result)

RecordedOther ==
    \E method \in {"start_drawing", "finish_drawing", "cancel_drawing",
                   "remove_last_point", "reset"} :
        RecordedCall(method, <<>>,
                     [self |-> CASE method = "start_drawing" -> start_drawing(roi_manager)
                                 [] method = "finish_drawing" -> finish_drawing(roi_manager)
                                 [] method = "cancel_drawing" -> cancel_drawing(roi_manager)
                                 [] method = "remove_last_point" -> remove_last_point(roi_manager)
                                 [] OTHER -> reset(roi_manager),
                      ret |-> "None"])

RecordedCalls == LoadFrame \/ RecordedAddPoint \/ RecordedOther

\* calls of the ROIManager, recorded
SpecClose == Init /\ [][RecordedCalls]_vars

\* the click of the recorded call is less than 15 canvas pixels away from the
\* canvas point of the first point of the polygon the call found
NearFirstPoint ==
    LET first_point_canvas ==
            frame_to_canvas(CoordinateTransformer(roi_call.frame[1], roi_call.frame[2]),
                            roi_call.before.roi_points[1][1],
                            roi_call.before.roi_points[1][2],
                            CanvasSize[1], CanvasSize[2])
        dx == roi_call.click[1] - first_point_canvas[1]
        dy == roi_call.click[2] - first_point_canvas[2]
    IN  dx * dx + dy * dy < 15 * 15

\* C34: add_point on a manager that is not drawing changes nothing and returns
\* False; on one that is drawing it returns True, appends nothing, sets
\* is_complete and clears is_drawing exactly when the polygon has 3 points or
\* more and the click is less than 15 canvas pixels away from its first point,
\* and otherwise appends the frame point of the click and returns False;
\* finish_drawing on a polygon with fewer than 3 points changes nothing
C34_AddPointCloses ==
    /\ (roi_call.called /\ roi_call.method = "add_point") =>
          IF ~roi_call.before.is_drawing
          THEN roi_manager = roi_call.before /\ roi_call.ret = FALSE
          ELSE IF Len(roi_call.before.roi_points) >= 3 /\ NearFirstPoint
          THEN /\ roi_call.ret = TRUE
               /\ roi_manager.roi_points = roi_call.before.roi_points
               /\ roi_manager.is_complete
               /\ ~roi_manager.is_drawing
          ELSE /\ roi_call.ret = FALSE
               /\ roi_manager =
                      [roi_call.before EXCEPT !.roi_points =
                          Append(@, canvas_to_frame(
                                        CoordinateTransformer(roi_call.frame[1],
                                                              roi_call.frame[2]),
                                        roi_call.click[1], roi_call.click[2],
                                        CanvasSize[1], CanvasSize[2]))]
    /\ (roi_call.called /\ roi_call.method = "finish_drawing"
            /\ Len(roi_call.before.roi_points) < 3) =>
          roi_manager = roi_call.before

\* a click near the first point closed a polygon of three points in a frame
\* that is not square
C34_Witness ==
    /\ roi_call.called /\ roi_call.method = "add_point"
    /\ roi_call.ret = TRUE
    /\ roi_call.before.is_drawing
    /\ Len(roi_call.before.roi_points) = 3
    /\ roi_call.frame[1] > roi_call.frame[2] /\ roi_call.frame[2] > 0
    /\ roi_manager.is_complete /\ ~roi_manager.is_drawing
    /\ Len(roi_manager.roi_points) = 3

----------------------------------------------------------------------------
(* The flags of the ROIManager *)

\* C35: in every state the ROIManager reaches through start_drawing,
\* add_point, finish_drawing, cancel_drawing, remove_last_point and reset,
\* whatever the frame size, is_drawing and is_complete are not both true, and
\* a complete polygon has at least 3 points
C35_FlagsExclusive ==
    /\ ~(roi_manager.is_drawing /\ roi_manager.is_complete)
    /\ roi_manager.is_complete => Len(roi_manager.roi_points) >= 3

\* a polygon of MaxRoiPoints points is complete and no longer being drawn, in
\* a frame with a positive size
C35_Witness ==
    /\ roi_manager.is_complete
    /\ ~roi_manager.is_drawing
    /\ Len(roi_manager.roi_points) = MaxRoiPoints
    /\ transformer.frame_width > 0 /\ transformer.frame_height > 0

----------------------------------------------------------------------------
(* The VideoProcessor, its methods called directly in any order
   (src/src/app/core/video_processor.py) *)

\* the files load_video is given: whether cv2 opens it, its frame size and
\* the number of frames it holds
ProcessorVideos ==
    {[opened |-> TRUE, frame_width |-> 4, frame_height |-> 2, frames |-> 3],
     [opened |-> TRUE, frame_width |-> 3, frame_height |-> 3, frames |-> 2],
     [opened |-> FALSE, frame_width |-> 0, frame_height |-> 0, frames |-> 0]}

\* the normalized lines setup_counter is given
ProcessorLines == {<< <<Rat(3, 8), RInt(0)>>, <<Rat(3, 8), RInt(1)>> >>}

\* what a method that is not process_next_frame returns to the record of the call
NoFrame == [frame |-> FALSE, raised |-> "none", callbacks |-> <<>>, updated |-> <<>>]

\* a call of a method: the processor after it and what the call did
ProcessorStep(method, after, result) ==
    /\ video_processor' =
           [processor |-> after,
            called |-> TRUE,
            method |-> method,
            before |-> video_processor.processor,
            frame |-> result.frame,
            raised |-> result.raised,
            callbacks |-> result.callbacks,
            updated |-> result.updated,
            completions |->
                IF method = "start_processing" THEN 0
                ELSE video_processor.completions
                     + Cardinality({i \in DOMAIN result.callbacks :
                                       result.callbacks[i].name = "complete_callback"}),
            stopped |->
                IF method = "stop_processing" THEN <<[processor |-> after, idle |-> FALSE]>>
                ELSE IF method = "start_processing" THEN video_processor.stopped
                ELSE IF /\ method = "process_next_frame"
                        /\ ~video_processor.processor.is_running
                        /\ video_processor.stopped # <<>>
                THEN <<[video_processor.stopped[1] EXCEPT !.idle = TRUE]>>
                ELSE <<>>]
    /\ UNCHANGED <<counter_vars, scenario, first_seen, reversal, descent, transformer,
                   roi_manager, tracker, app, roi_call, line_manager>>

LoadVideo ==
    \E video \in ProcessorVideos :
        ProcessorStep("load_video", load_video(video_processor.processor, video).self, NoFrame)

ResetProcessingState ==
    ProcessorStep("reset_processing_state",
                  reset_processing_state(video_processor.processor), NoFrame)

SetupCounter ==
    \E line_points \in ProcessorLines, in_side \in {"left", "right"} :
        \E set \in {setup_counter(video_processor.processor, line_points, in_side)} :
            ProcessorStep("setup_counter", set.self, [NoFrame EXCEPT !.raised = set.raised])

SetupCounterWithRoi ==
    /\ video_processor.processor.cap.opened
    /\ \E line_points \in ProcessorLines, in_side \in {"left", "right"} :
         \E roi_mask \in PolygonMasks(video_processor.processor.frame_width,
                                      video_processor.processor.frame_height) :
            \E set \in {setup_counter_with_roi(video_processor.processor, line_points,
                                                in_side, roi_mask)} :
                ProcessorStep("setup_counter_with_roi", set.self,
                              [NoFrame EXCEPT !.raised = set.raised])

StartProcessing ==
    ProcessorStep("start_processing",
                  VideoProcessor_start_processing(video_processor.processor).self, NoFrame)

StopProcessing ==
    ProcessorStep("stop_processing", stop_processing(video_processor.processor), NoFrame)

\* frames are counted while |count| <= MaxCount
ProcessNextFrame ==
    /\ video_processor.processor.counter # <<>> =>
           Abs(video_processor.processor.counter[1].count) <= MaxCount
    /\ \E tracked_objects \in FrameObjects :
         \E next \in {process_next_frame(video_processor.processor, tracked_objects)} :
             ProcessorStep("process_next_frame", next.self, next)

ProcessorCalls ==
    \/ LoadVideo
    \/ ResetProcessingState
    \/ SetupCounter
    \/ SetupCounterWithRoi
    \/ StartProcessing
    \/ StopProcessing
    \/ ProcessNextFrame

\* the VideoProcessor from its construction
SpecProcessor == Init /\ [][ProcessorCalls]_vars

\* the last call was process_next_frame and it returned the processed frame
FrameProcessed ==
    /\ video_processor.called
    /\ video_processor.method = "process_next_frame"
    /\ video_processor.frame

\* the last call was process_next_frame and counter.update raised in it
FrameRaised ==
    /\ video_processor.called
    /\ video_processor.method = "process_next_frame"
    /\ video_processor.raised # "none"

\* C36: in every state of the VideoProcessor count_history and frame_history
\* have the same length and frame_history is strictly increasing; a call of
\* process_next_frame that processed a frame appended exactly one entry to
\* both when a counter was set, the count being the value counter.update
\* returned in that call and the frame number being current_frame_number
\* before the call, and appended nothing to either when no counter was set;
\* a call that counter.update ended with an exception returned no frame and
\* appended nothing
C36_HistoriesInStep ==
    LET after == video_processor.processor
        before == video_processor.before
    IN  /\ Len(after.count_history) = Len(after.frame_history)
        /\ \A i \in 1 .. Len(after.frame_history) - 1 :
               after.frame_history[i] < after.frame_history[i + 1]
        /\ FrameProcessed =>
               IF before.counter # <<>>
               THEN /\ video_processor.updated # <<>>
                    /\ after.count_history =
                           Append(before.count_history, video_processor.updated[1])
                    /\ after.frame_history =
                           Append(before.frame_history, before.current_frame_number)
               ELSE /\ video_processor.updated = <<>>
                    /\ after.count_history = before.count_history
                    /\ after.frame_history = before.frame_history
        /\ FrameRaised =>
               /\ ~video_processor.frame
               /\ after.count_history = before.count_history
               /\ after.frame_history = before.frame_history

\* a frame was processed with a counter after a frame without one: the first
\* frame number recorded is not 0, the second entry was just appended, and the
\* count appended is not 0
C36_Witness ==
    /\ FrameProcessed
    /\ video_processor.before.counter # <<>>
    /\ Len(video_processor.processor.frame_history) = 2
    /\ Len(video_processor.processor.count_history) = 2
    /\ video_processor.processor.frame_history[1] > 0
    /\ video_processor.updated # <<>>
    /\ video_processor.updated[1] # 0
    /\ video_processor.processor.count_history[2] = video_processor.updated[1]

----------------------------------------------------------------------------
(* The end of the video *)

\* the last call was process_next_frame on a running processor whose open
\* video had no frame left
Exhausted ==
    /\ video_processor.called
    /\ video_processor.method = "process_next_frame"
    /\ video_processor.before.cap.opened
    /\ video_processor.before.is_running
    /\ video_processor.before.cap.frames = 0

\* the calls of complete_callback in the last call
Completions ==
    {i \in DOMAIN video_processor.callbacks :
        video_processor.callbacks[i].name = "complete_callback"}

\* C37: a call of process_next_frame that finds the video exhausted leaves
\* is_running false, calls complete_callback once with count_history and
\* frame_history and no other callback, returns None and changes nothing
\* else; complete_callback is called by no other call, only by one made while
\* the processor was running, and at most once since the last call of
\* start_processing
C37_CompletesOnce ==
    /\ Exhausted =>
           /\ ~video_processor.processor.is_running
           /\ ~video_processor.frame
           /\ video_processor.raised = "none"
           /\ video_processor.callbacks =
                  <<[name |-> "complete_callback",
                     args |-> <<video_processor.processor.count_history,
                                video_processor.processor.frame_history>>]>>
           /\ video_processor.processor =
                  [video_processor.before EXCEPT !.is_running = FALSE]
    /\ Completions # {} => Exhausted
    /\ video_processor.completions <= 1

\* the video ended after two frames were counted, the count not being 0:
\* complete_callback received both histories, of two entries
C37_Witness ==
    /\ Exhausted
    /\ video_processor.completions = 1
    /\ Len(video_processor.callbacks) = 1
    /\ video_processor.callbacks[1].name = "complete_callback"
    /\ Len(video_processor.callbacks[1].args[1]) = 2
    /\ video_processor.callbacks[1].args[2] = <<0, 1>>
    /\ video_processor.callbacks[1].args[1][2] # 0
    /\ ~video_processor.processor.is_running

----------------------------------------------------------------------------
(* The processor while it is not running *)

\* the last call was process_next_frame on a processor that was not running
IdleCall ==
    /\ video_processor.called
    /\ video_processor.method = "process_next_frame"
    /\ ~video_processor.before.is_running

\* the last call was start_processing, and nothing was called since
\* stop_processing but process_next_frame and start_processing
Restarted ==
    /\ video_processor.called
    /\ video_processor.method = "start_processing"
    /\ video_processor.stopped # <<>>

\* C38: a call of process_next_frame on a processor that is not running
\* returns None, calls no callback and leaves the processor as it was, its
\* counter, count, count_history, frame_history and current_frame_number
\* included; stop_processing changes is_running only, and start_processing
\* after it, with or without such calls of process_next_frame in between,
\* finds the counter, the count, the histories and the frame number as
\* stop_processing left them
C38_IdleFrameEffect ==
    /\ IdleCall =>
           /\ ~video_processor.frame
           /\ video_processor.raised = "none"
           /\ video_processor.callbacks = <<>>
           /\ video_processor.processor = video_processor.before
    /\ (video_processor.called /\ video_processor.method = "stop_processing") =>
           video_processor.processor = [video_processor.before EXCEPT !.is_running = FALSE]
    /\ Restarted =>
           LET was == video_processor.stopped[1].processor
           IN  video_processor.processor = [was EXCEPT !.is_running = was.cap.opened]

\* a processor that had counted two frames, with a count that is not 0 and a
\* track position, was stopped with a frame left, process_next_frame was
\* called on it, and start_processing set it running again with the counter,
\* the count, the histories and the frame number as they were
C38_Witness ==
    /\ Restarted
    /\ video_processor.stopped[1].idle
    /\ video_processor.processor.is_running
    /\ video_processor.processor.cap.frames > 0
    /\ video_processor.processor.counter # <<>>
    /\ video_processor.processor.counter[1].count # 0
    /\ DOMAIN video_processor.processor.counter[1].tracked_positions # {}
    /\ video_processor.processor.current_frame_number = 2
    /\ Len(video_processor.processor.count_history) = 2
    /\ video_processor.processor.frame_history = <<0, 1>>

====

